---- MODULE Spec2Model ----
(***************************************************************************)
(* Model of the cached-embedding / batch-indexing core of search-plugin:   *)
(*   search/utils/llm_cache.py     LLMCallCache                            *)
(*   search/utils/embeddings.py    EmbeddingsGenerator                     *)
(*   search/indexer/es_indexer.py  DocumentIndexer                         *)
(*   search/utils/text_chunker.py  TextChunker                             *)
(* Python positions are 0-based; TLA+ sequences are 1-based, so a Python   *)
(* position p is the sequence index p + 1.                                 *)
(***************************************************************************)
EXTENDS Integers, Sequences, FiniteSets, TLC

VARIABLES
    store,           \* the MongoDB cache collection: a set of documents
    now,             \* the clock read by datetime.utcnow()
    cache_disabled,  \* LLMCallCache.cache_disabled
    last,            \* the last cache operation: its call, its result, and
                     \* what kind of operation came before it
    mongo,           \* availability of the cache store to the pipeline:
                     \* "up", "down" (every call errors) or "flaky"
    gen,             \* per thread: the frame of its EmbeddingsGenerator.generate call
    documents,       \* the argument of index_batch_with_chunks
    task,            \* per submitted document: the state of its future and the
                     \* number of the attempt of _index_with_chunks it is in
    mainpc,          \* where the thread calling index_batch_with_chunks is
    collected,       \* the futures as_completed has handed to the loop so far
    results,         \* the results dict: success and failed
    index,           \* the Elasticsearch index: a set of [id, body] records
    lastWrite,       \* per url, the body of the last index write that completed
    chunker,         \* the frame of a TextChunker.chunk_text call
    driver           \* the frame of a _run_indexing call, with the stats file

idxVars == <<documents, task, mainpc, collected, results, index, lastWrite>>
pipeVars == <<mongo, gen, idxVars, chunker, driver>>
vars == <<store, now, cache_disabled, last, mongo, gen, idxVars, chunker, driver>>

----------------------------------------------------------------------------
(* Bounds of the model *)

MaxClock == 1    \* last clock value

\* the (keys, model) arguments of a cache call: no key, one key, the same key
\* under another model, distinct keys, a repeated key
CacheCalls ==
    {[keys |-> <<>>, model |-> "m"],
     [keys |-> <<"a">>, model |-> "m"],
     [keys |-> <<"a">>, model |-> "n"],
     [keys |-> <<"a", "b">>, model |-> "m"],
     [keys |-> <<"a", "a">>, model |-> "m"]}

\* Python's None
None == <<"None">>

\* cached values are opaque to the cache; the pipeline stores vectors
Vec(src, text) == <<"vec", src, text>>
CacheValues == {Vec("x", "a"), Vec("y", "a")}

----------------------------------------------------------------------------
(* llm_cache.py: pure helpers *)

\* pickle.dumps / pickle.loads: the stored bytes are not the value
PickleDumps(v) == <<"pickle">> \o v
\* mutant: any bytes are taken for a pickle
CanUnpickleAny(b) == TRUE
CanUnpickle(b) == Len(b) >= 1 /\ b[1] = "pickle"
\* mutant: the stored bytes handed back without unpickling
PickleLoadsRaw(b) == b
PickleLoads(b) == Tail(b)
CorruptBytes == <<"garbage">>

\* hashlib.sha256(...).hexdigest(), collision-free on the model's strings
Sha256(s) == <<"sha256", s>>

\* LLMCallCache._compute_hashes
ComputeHashes(texts, model) ==
    [i \in 1..Len(texts) |-> Sha256(texts[i] \o ":" \o model)]

\* the document set_many builds for one text
CacheDoc(text, text_hash, model, value, current_time) ==
    [text_hash |-> text_hash, model |-> model, text |-> text,
     value |-> PickleDumps(value), created_at |-> current_time]

\* mutant: only the first hash is looked up
FindFirstOnly(coll, hashes, model) ==
    {d \in coll : d.model = model /\ Len(hashes) >= 1 /\ hashes[1] = d.text_hash}

\* collection.find({"text_hash": {"$in": hashes}, "model": model})
Find(coll, hashes, model) ==
    {d \in coll : d.model = model /\ \E i \in 1..Len(hashes) : hashes[i] = d.text_hash}

\* mutant: a plain insert instead of an upsert on (text_hash, model)
InsertOne(coll, doc) == coll \cup {doc}

\* UpdateOne({"text_hash": h, "model": m}, {"$set": doc}, upsert=True)
UpdateOneUpsert(coll, doc) ==
    LET matches == {d \in coll : d.text_hash = doc.text_hash /\ d.model = doc.model}
    IN  IF matches = {} THEN coll \cup {doc}
        ELSE (coll \ {CHOOSE d \in matches : TRUE}) \cup {doc}

\* collection.bulk_write(operations): the operations in order; only the first
\* `applied` of them take effect when the write is interrupted by an error
RECURSIVE BulkWrite(_, _, _)
BulkWrite(coll, docs, applied) ==
    IF applied = 0 \/ docs = <<>> THEN coll
    ELSE BulkWrite(UpdateOneUpsert(coll, Head(docs)), Tail(docs), applied - 1)

AllMiss(texts) == [i \in 1..Len(texts) |-> <<i - 1, None>>]

\* LLMCallCache.get_many: [raised, value]; raised is the unpickling error of a
\* corrupt hit, which is no PyMongoError and so is not caught
GetManyResult(coll, disabled, texts, model, fault) ==
    IF disabled \/ fault THEN [raised |-> FALSE, value |-> AllMiss(texts)]
    ELSE LET text_hashes == ComputeHashes(texts, model)
             docs == Find(coll, text_hashes, model)
             Doc(h) == CHOOSE d \in docs : d.text_hash = h
             Hit(i) == \E d \in docs : d.text_hash = text_hashes[i]
         IN  IF \E i \in 1..Len(texts) :
                    Hit(i) /\ ~CanUnpickle(Doc(text_hashes[i]).value)
             THEN [raised |-> TRUE, value |-> <<>>]
             ELSE [raised |-> FALSE,
                   value |-> [i \in 1..Len(texts) |->
                                IF Hit(i)
                                THEN <<i - 1, PickleLoads(Doc(text_hashes[i]).value)>>
                                ELSE <<i - 1, None>>]]

\* LLMCallCache.get: [raised, value] of the one-text lookup
GetResult(coll, disabled, text, model, fault) ==
    LET r == GetManyResult(coll, disabled, <<text>>, model, fault)
    IN  [raised |-> r.raised,
         value |-> IF r.raised \/ r.value = <<>> THEN None ELSE r.value[1][2]]

\* mutant: the disable switch is not looked at
SetManyResultIgnoreSwitch(coll, disabled, texts, model, values, current_time, fault, applied) ==
    LET text_hashes == ComputeHashes(texts, model)
        n == IF Len(texts) <= Len(values) THEN Len(texts) ELSE Len(values)
        operations == [i \in 1..n |->
            CacheDoc(texts[i], text_hashes[i], model, values[i], current_time)]
    IN  IF n = 0 THEN [coll |-> coll, ret |-> TRUE]
        ELSE IF fault
        THEN [coll |-> BulkWrite(coll, operations, applied), ret |-> FALSE]
        ELSE [coll |-> BulkWrite(coll, operations, n), ret |-> TRUE]

\* mutant: set_many reports success and stores nothing
SetManyResultDrop(coll, disabled, texts, model, values, current_time, fault, applied) ==
    [coll |-> coll, ret |-> TRUE]

\* LLMCallCache.set_many: [coll, ret]; zip() stops at the shorter of texts, values
SetManyResult(coll, disabled, texts, model, values, current_time, fault, applied) ==
    IF disabled THEN [coll |-> coll, ret |-> TRUE]
    ELSE LET text_hashes == ComputeHashes(texts, model)
             n == IF Len(texts) <= Len(values) THEN Len(texts) ELSE Len(values)
             operations == [i \in 1..n |->
                 CacheDoc(texts[i], text_hashes[i], model, values[i], current_time)]
         IN  IF n = 0 THEN [coll |-> coll, ret |-> TRUE]
             ELSE IF fault
             THEN [coll |-> BulkWrite(coll, operations, applied), ret |-> FALSE]
             ELSE [coll |-> BulkWrite(coll, operations, n), ret |-> TRUE]

\* mutant: entries created exactly at the timestamp are deleted too
CleanupResultInclusive(coll, disabled, timestamp, current_time, fault) ==
    IF disabled THEN [coll |-> coll, ret |-> [status |-> "cache_disabled"]]
    ELSE IF fault THEN [coll |-> coll, ret |-> [error |-> "PyMongoError"]]
    ELSE LET old == {d \in coll : d.created_at <= timestamp}
         IN  [coll |-> coll \ old,
              ret |-> [deleted_count |-> Cardinality(old), timestamp |-> current_time]]

\* LLMCallCache.cleanup_before: [coll, ret]; ret is the dict returned, which
\* has the keys deleted_count and timestamp only when the delete was made
CleanupResult(coll, disabled, timestamp, current_time, fault) ==
    IF disabled THEN [coll |-> coll, ret |-> [status |-> "cache_disabled"]]
    ELSE IF fault THEN [coll |-> coll, ret |-> [error |-> "PyMongoError"]]
    ELSE LET old == {d \in coll : d.created_at < timestamp}
         IN  [coll |-> coll \ old,
              ret |-> [deleted_count |-> Cardinality(old), timestamp |-> current_time]]

\* mutant: a store error is reported as success
ClearResultAlwaysTrue(coll, disabled, fault) ==
    IF disabled THEN [coll |-> coll, ret |-> TRUE]
    ELSE IF fault THEN [coll |-> coll, ret |-> TRUE]
    ELSE [coll |-> {}, ret |-> TRUE]

\* mutant: only the entries created at time 0 are deleted
ClearResultOldOnly(coll, disabled, fault) ==
    IF disabled THEN [coll |-> coll, ret |-> TRUE]
    ELSE IF fault THEN [coll |-> coll, ret |-> FALSE]
    ELSE [coll |-> {d \in coll : d.created_at # 0}, ret |-> TRUE]

\* LLMCallCache.clear: [coll, ret]
ClearResult(coll, disabled, fault) ==
    IF disabled THEN [coll |-> coll, ret |-> TRUE]
    ELSE IF fault THEN [coll |-> coll, ret |-> FALSE]
    ELSE [coll |-> {}, ret |-> TRUE]

\* no chunk_text call made
ChunkIdle == [pc |-> "idle", text |-> <<>>, max_tokens |-> 1, sentences |-> <<>>,
              k |-> 0, chunks |-> <<>>, current_chunk |-> <<>>, current_tokens |-> 0]

\* Python's None
NoTime == <<"None">>

\* stats before `stats = {...}` has run
NoStats == [total_documents |-> 0, successful |-> 0, failed |-> <<>>,
            start_time |-> NoTime, end_time |-> NoTime,
            duration_seconds |-> NoTime]

\* no _run_indexing call made
DriverIdle == [pc |-> "none", kind |-> "content", docs_metadata |-> <<>>,
               batch_size |-> 1, documents |-> <<>>, i |-> 0, stats |-> NoStats,
               saved |-> <<>>, calls |-> <<>>, error |-> ""]

\* no index_batch_with_chunks call in this behaviour
NoBatch ==
    /\ documents = <<>>
    /\ task = <<>>
    /\ mainpc = "none"
    /\ collected = {}
    /\ results = [success |-> 0, failed |-> <<>>]
    /\ index = {}
    /\ lastWrite = <<>>

----------------------------------------------------------------------------
(* The cache on its own: any client calling the cache operations *)

NoOp == [kind |-> "none", keys |-> <<>>, model |-> "", values |-> <<>>, ts |-> 0,
         fault |-> FALSE, ret |-> FALSE, prev |-> "none", before |-> 0]

\* the record of one call; prev tells whether the call before it was a
\* set_many of the same keys and model that reported success, before is the
\* number of entries the collection held when the call was made
Op(kind, keys, model, values, ts, fault, ret) ==
    [kind |-> kind, keys |-> keys, model |-> model, values |-> values,
     ts |-> ts, fault |-> fault, ret |-> ret,
     prev |-> IF last.kind = "set_many" /\ last.ret = TRUE /\ ~last.fault
                 /\ last.keys = keys /\ last.model = model
              THEN "set_many_same" ELSE last.kind,
     before |-> Cardinality(store)]

\* an entry left behind by an earlier process, possibly damaged
SeedDoc(bytes) ==
    [text_hash |-> Sha256("b" \o ":" \o "m"), model |-> "m", text |-> "b",
     value |-> bytes, created_at |-> 0]

CacheInit ==
    /\ store \in {{}, {SeedDoc(CorruptBytes)}}
    /\ now = 0
    /\ cache_disabled \in BOOLEAN
    /\ last = NoOp
    /\ mongo = "flaky"
    /\ gen = <<>>
    /\ NoBatch
    /\ chunker = ChunkIdle
    /\ driver = DriverIdle

SetMany ==
    \E c \in CacheCalls, fault \in BOOLEAN :
      \E values \in [1..Len(c.keys) -> CacheValues], applied \in 0..Len(c.keys) :
        LET keys == c.keys
            model == c.model
            r == SetManyResult(store, cache_disabled, keys, model, values, now,
                               fault, applied)
        IN  /\ fault \/ applied = Len(keys)
            /\ applied < Len(keys) \/ ~fault
            /\ store' = r.coll
            /\ last' = Op("set_many", keys, model, values, now, fault, r.ret)
            /\ UNCHANGED <<now, cache_disabled, pipeVars>>

GetMany ==
    \E c \in CacheCalls, fault \in BOOLEAN :
        LET keys == c.keys
            model == c.model
            r == GetManyResult(store, cache_disabled, keys, model, fault)
        IN  /\ last' = Op("get_many", keys, model, <<>>, now, fault,
                          IF r.raised THEN "raised" ELSE r.value)
            /\ UNCHANGED <<store, now, cache_disabled, pipeVars>>

CleanupBefore ==
    \E timestamp \in 0..MaxClock, fault \in BOOLEAN :
        LET r == CleanupResult(store, cache_disabled, timestamp, now, fault)
        IN  /\ store' = r.coll
            /\ last' = Op("cleanup_before", <<>>, "", <<>>, timestamp, fault, r.ret)
            /\ UNCHANGED <<now, cache_disabled, pipeVars>>

Clear ==
    \E fault \in BOOLEAN :
        LET r == ClearResult(store, cache_disabled, fault)
        IN  /\ store' = r.coll
            /\ last' = Op("clear", <<>>, "", <<>>, now, fault, r.ret)
            /\ UNCHANGED <<now, cache_disabled, pipeVars>>

Tick ==
    /\ now < MaxClock
    /\ now' = now + 1
    /\ UNCHANGED <<store, cache_disabled, last, pipeVars>>

CacheNext == SetMany \/ GetMany \/ CleanupBefore \/ Clear \/ Tick

SpecCache == CacheInit /\ [][CacheNext]_vars

----------------------------------------------------------------------------
(* Properties of the cache (checked under SpecCache) *)

Distinct(keys) == \A i, j \in 1..Len(keys) : keys[i] = keys[j] => i = j

\* the value of the last occurrence of keys[i] in one set_many call
LatestValue(keys, values, i) ==
    values[CHOOSE j \in 1..Len(keys) :
              /\ keys[j] = keys[i]
              /\ \A k \in 1..Len(keys) : keys[k] = keys[i] => k <= j]

SetSucceeded(op) == op.kind = "set_many" /\ op.ret = TRUE /\ ~op.fault

\* C9: cache round trip. With the cache enabled and the store healthy, a
\* get_many that directly follows a successful set_many of the same distinct
\* keys under the same model returns, at every position i, the pair
\* (i, value handed to set_many at i).
C9_RoundTrip ==
    [][ ( /\ ~cache_disabled
          /\ SetSucceeded(last)
          /\ Distinct(last.keys)
          /\ last'.kind = "get_many" /\ ~last'.fault
          /\ last'.keys = last.keys /\ last'.model = last.model )
        => last'.ret = [i \in 1..Len(last.keys) |-> <<i - 1, last.values[i]>>] ]_vars

\* C9 witness: a healthy get_many of two distinct keys right after their
\* set_many, returning both values that were set.
C9_Witness ==
    /\ ~cache_disabled
    /\ last.kind = "get_many" /\ ~last.fault /\ last.prev = "set_many_same"
    /\ last.keys = <<"a", "b">>
    /\ last.ret = << <<0, Vec("x", "a")>>, <<1, Vec("y", "a")>> >>

C10_UniqueKey ==
    \A d1, d2 \in store :
        (d1.text_hash = d2.text_hash /\ d1.model = d2.model) => d1 = d2

C10_LatestOnly ==
    (~cache_disabled /\ SetSucceeded(last)) =>
        LET hashes == ComputeHashes(last.keys, last.model)
            got == GetManyResult(store, cache_disabled, last.keys, last.model, FALSE)
        IN  \A i \in 1..Len(last.keys) :
              /\ {d \in store : d.text_hash = hashes[i] /\ d.model = last.model}
                   = {CacheDoc(last.keys[i], hashes[i], last.model,
                               LatestValue(last.keys, last.values, i), last.ts)}
              /\ ~got.raised
              /\ got.value[i] = <<i - 1, LatestValue(last.keys, last.values, i)>>

C10_CleanupKeeps ==
    ( /\ ~cache_disabled
      /\ SetSucceeded(last)
      /\ last'.kind = "cleanup_before"
      /\ last'.ts <= last.ts )
    => LET hashes == ComputeHashes(last.keys, last.model)
       IN  \A i \in 1..Len(last.keys) :
              CacheDoc(last.keys[i], hashes[i], last.model,
                       LatestValue(last.keys, last.values, i), last.ts) \in store'

\* C10: upsert idempotence. The store never holds two records with the same
\* (text_hash, model); after every successful set_many (first or repeated,
\* also with a key repeated inside the call) each key has exactly one record,
\* carrying the latest value and the time of this set, and that value is what
\* a lookup returns; a cleanup_before(t) with t no later than the time of the
\* set leaves those records in place.
C10_Idempotent ==
    [](C10_UniqueKey /\ C10_LatestOnly) /\ [][C10_CleanupKeeps]_vars

\* C10 witness: a key set again, at a later time, right after a successful set
\* of the same key and model; the store holds one record, with the later time.
C10_Witness ==
    /\ ~cache_disabled
    /\ SetSucceeded(last) /\ last.prev = "set_many_same"
    /\ last.keys = <<"a">> /\ last.ts = MaxClock
    /\ Cardinality({d \in store : d.text = "a" /\ d.model = last.model}) = 1
    /\ \A d \in store : (d.text = "a" /\ d.model = last.model) => d.created_at = MaxClock

\* the entries of the given text and model, and what a lookup of them gives
EntriesOf(coll, text, model) == {d \in coll : d.text = text /\ d.model = model}
StoredValue(coll, text, model) ==
    IF EntriesOf(coll, text, model) = {} THEN None
    ELSE PickleLoads((CHOOSE d \in EntriesOf(coll, text, model) : TRUE).value)
Readable(coll) == {d \in coll : CanUnpickle(d.value)}

\* C11: age-based cleanup. A cleanup_before(t) on an enabled cache with a
\* healthy store deletes exactly the entries with created_at < t and leaves
\* every other entry (also one with created_at = t) as it was; it reports the
\* number of entries deleted; afterwards get gives a miss for every deleted
\* key and the stored value for every retained (readable) key.
C11_CleanupExact ==
    [][ ( /\ ~cache_disabled
          /\ now' = now
          /\ last'.kind = "cleanup_before" /\ ~last'.fault )
        => LET t == last'.ts
               old == {d \in store : d.created_at < t}
           IN  /\ store' = store \ old
               /\ \A d \in store : d.created_at >= t => d \in store'
               /\ last'.ret.deleted_count = Cardinality(old)
               /\ \A d \in old :
                    GetResult(store', cache_disabled, d.text, d.model, FALSE)
                      = [raised |-> FALSE, value |-> None]
               /\ \A d \in Readable(store \ old) :
                    GetResult(store', cache_disabled, d.text, d.model, FALSE)
                      = [raised |-> FALSE, value |-> PickleLoads(d.value)] ]_vars

\* C11 witness: a cleanup at the last clock value that found two entries,
\* deleted one and kept one created exactly at the cleanup time.
C11_Witness ==
    /\ ~cache_disabled
    /\ last.kind = "cleanup_before" /\ ~last.fault
    /\ last.ts = MaxClock /\ last.before = 2
    /\ last.ret.deleted_count = 1
    /\ \E d \in store : d.created_at = last.ts /\ CanUnpickle(d.value)

CorruptAmong(coll, keys, model) ==
    \E i \in 1..Len(keys) : \E d \in EntriesOf(coll, keys[i], model) : ~CanUnpickle(d.value)

\* C12: bulk lookup. On an enabled cache with a healthy store and no damaged
\* entry among the keys, get_many(keys, model) returns Len(keys) pairs, the
\* i-th being (i, value): the stored value when an entry of that key text and
\* model exists and None otherwise; an entry of the same text under another
\* model does not count, and a repeated key gets the same value everywhere.
C12_GetMany ==
    ( /\ ~cache_disabled
      /\ last.kind = "get_many" /\ ~last.fault
      /\ ~CorruptAmong(store, last.keys, last.model) )
    => /\ Len(last.ret) = Len(last.keys)
       /\ \A i \in 1..Len(last.keys) :
            /\ last.ret[i][1] = i - 1
            /\ last.ret[i][2] = StoredValue(store, last.keys[i], last.model)
            /\ EntriesOf(store, last.keys[i], last.model) = {} => last.ret[i][2] = None
            /\ \A j \in 1..Len(last.keys) :
                 last.keys[i] = last.keys[j] => last.ret[i][2] = last.ret[j][2]

\* C12 witness: a lookup of "a" under model "n" that is a miss while the store
\* holds an entry of "a" under model "m".
C12_Witness ==
    /\ ~cache_disabled
    /\ last.kind = "get_many" /\ ~last.fault
    /\ last.keys = <<"a">> /\ last.model = "n"
    /\ last.ret = << <<0, None>> >>
    /\ EntriesOf(store, "a", "m") # {}

\* C14: store errors are values. When the store call of an enabled cache
\* fails, get_many returns (i, None) for every position, set_many (with at
\* least one key, so that a store call is made) returns False and clear
\* returns False; none of them raises.
C14_ErrorsAsValues ==
    (~cache_disabled /\ last.fault) =>
        /\ last.kind = "get_many" =>
             last.ret = [i \in 1..Len(last.keys) |-> <<i - 1, None>>]
        /\ (last.kind = "set_many" /\ last.keys # <<>>) => last.ret = FALSE
        /\ last.kind = "clear" => last.ret = FALSE

\* C14 witness: a clear that failed on a store holding two entries, returning
\* False.
C14_Witness ==
    /\ ~cache_disabled
    /\ last.kind = "clear" /\ last.fault /\ last.ret = FALSE
    /\ last.before = 2

C16_Results ==
    cache_disabled =>
        /\ last.kind = "get_many" =>
             last.ret = [i \in 1..Len(last.keys) |-> <<i - 1, None>>]
        /\ last.kind = "set_many" => last.ret = TRUE
        /\ last.kind = "cleanup_before" => last.ret = [status |-> "cache_disabled"]
        /\ last.kind = "clear" => last.ret = TRUE

C16_Frame == cache_disabled => (store' = store /\ cache_disabled')

\* C16: the disable switch. With the switch set, get_many reports a miss at
\* every position, set_many and clear return True, cleanup_before returns
\* its "cache_disabled" status without an error, whether or not the store
\* would have answered; and no cache operation changes the store.
C16_Disabled == []C16_Results /\ [][C16_Frame]_vars

\* C16 witness: a disabled set_many of two keys, made while the store would
\* have failed, that returned True and left the one damaged entry in place.
C16_Witness ==
    /\ cache_disabled
    /\ last.kind = "set_many" /\ last.fault /\ last.ret = TRUE
    /\ Len(last.keys) = 2
    /\ store = {SeedDoc(CorruptBytes)}

C17_ClearStep ==
    ( /\ ~cache_disabled
      /\ now' = now
      /\ last'.kind = "clear" /\ last'.ret = TRUE )
    => store' = {}

C17_MissAfter ==
    (last.kind = "clear" /\ last.ret = TRUE) =>
        \A c \in CacheCalls : \A i \in 1..Len(c.keys) :
            GetResult(store, cache_disabled, c.keys[i], c.model, FALSE)
              = [raised |-> FALSE, value |-> None]

C17_UntilSet == (store = {} /\ store' # {}) => last'.kind = "set_many"

\* C17: clear. A clear that returns True on an enabled cache leaves the
\* collection empty, whatever the keys, models and ages of its entries; after
\* it a get of any key and model is a miss, and the collection only becomes
\* non-empty again by a set.
C17_Clear == []C17_MissAfter /\ [][C17_ClearStep /\ C17_UntilSet]_vars

\* C17 witness: a successful clear of a collection that held two entries.
C17_Witness ==
    /\ ~cache_disabled
    /\ last.kind = "clear" /\ ~last.fault /\ last.ret = TRUE
    /\ last.before = 2
    /\ store = {}

----------------------------------------------------------------------------
(* embeddings.py: EmbeddingsGenerator.generate, one step per external call *)

MaxTexts == 3    \* longest text list handed to generate
MaxBatch == 2    \* largest batch_size handed to generate

Texts == {"a", "b"}
SeqsUpTo(S, n) == UNION {[1..k -> S] : k \in 0..n}

\* EmbeddingsGenerator.model
EmbModel == "text-embedding-3-small"

\* client.embeddings.create(model, input=batch): one vector per input, in order
ApiEmbed(batch) == [k \in 1..Len(batch) |-> Vec("api", batch[k])]

\* whether a cache store call may fail, by the store's availability
Faults == CASE mongo = "up" -> {FALSE}
            [] mongo = "down" -> {TRUE}
            [] OTHER -> BOOLEAN

Min(x, y) == IF x <= y THEN x ELSE y

\* Python slice s[i:i + n] of a sequence (i is 0-based)
Slice(s, i, n) == SubSeq(s, i + 1, Min(i + n, Len(s)))

Idle == [pc |-> "idle", texts |-> <<>>, batch_size |-> 1, embeddings |-> <<>>,
         cache_results |-> <<>>, texts_to_embed |-> <<>>, cache_positions |-> <<>>,
         i |-> 0, batch |-> <<>>, batch_embeddings |-> <<>>, calls |-> <<>>,
         error |-> "", repeat |-> FALSE]

\* mutant: generate goes on with an empty list of texts
GenEnterNoCheck(texts, batch_size, repeat) ==
    [Idle EXCEPT !.pc = "lookup", !.texts = texts, !.batch_size = batch_size,
                 !.embeddings = [k \in 1..Len(texts) |-> None],
                 !.repeat = repeat]

\* entry of generate: the empty-input check and the result array
GenEnter(texts, batch_size, repeat) ==
    IF texts = <<>>
    THEN [Idle EXCEPT !.pc = "raised", !.error = "ValueError",
                      !.batch_size = batch_size, !.repeat = repeat]
    ELSE [Idle EXCEPT !.pc = "lookup", !.texts = texts, !.batch_size = batch_size,
                      !.embeddings = [k \in 1..Len(texts) |-> None],
                      !.repeat = repeat]

\* mutant: every position is queued for the external model, hit or not
AllPositions(cache_results) == [k \in 1..Len(cache_results) |-> cache_results[k][1]]

\* the positions of a get_many result that are misses, in result order
RECURSIVE MissPositions(_)
MissPositions(cache_results) ==
    IF cache_results = <<>> THEN <<>>
    ELSE IF Head(cache_results)[2] = None
         THEN <<Head(cache_results)[1]>> \o MissPositions(Tail(cache_results))
         ELSE MissPositions(Tail(cache_results))

\* mutant: the hits are thrown away and every text is queued
AfterLookupAllMiss(g, cache_results) ==
    [g EXCEPT
       !.cache_results = cache_results,
       !.embeddings = [k \in 1..Len(g.texts) |-> None],
       !.cache_positions = [k \in 1..Len(g.texts) |-> k - 1],
       !.texts_to_embed = g.texts,
       !.i = 0,
       !.pc = IF g.texts = <<>> THEN "return" ELSE "batch"]

\* the loop over cache_results: hits fill the result array, misses are queued
AfterLookup(g, cache_results) ==
    LET cache_positions == MissPositions(cache_results)
    IN  [g EXCEPT
           !.cache_results = cache_results,
           !.embeddings = [k \in 1..Len(g.texts) |->
                             IF \E j \in 1..Len(cache_results) :
                                    /\ cache_results[j][1] = k - 1
                                    /\ cache_results[j][2] # None
                             THEN cache_results[CHOOSE j \in 1..Len(cache_results) :
                                                   cache_results[j][1] = k - 1][2]
                             ELSE None],
           !.cache_positions = cache_positions,
           !.texts_to_embed = [k \in 1..Len(cache_positions) |->
                                 g.texts[cache_positions[k] + 1]],
           !.i = 0,
           !.pc = IF cache_positions = <<>> THEN "return" ELSE "batch"]

\* cache.get_many(texts, self.model) and the partition into hits and misses
GenLookup(t) ==
    /\ gen[t].pc = "lookup"
    /\ \E fault \in Faults :
         LET r == GetManyResult(store, cache_disabled, gen[t].texts, EmbModel, fault)
         IN  gen' = [gen EXCEPT ![t] =
                       IF r.raised
                       THEN [@ EXCEPT !.pc = "raised", !.error = "UnpicklingError"]
                       ELSE AfterLookup(@, r.value)]
    /\ UNCHANGED <<store, now, cache_disabled, last, chunker, driver, mongo, idxVars>>

\* mutant: the position inside the batch used instead of the original position
FillBatchByOffset(embeddings, batch_positions, batch_embeddings) ==
    [k \in 1..Len(embeddings) |->
        IF k <= Min(Len(batch_positions), Len(batch_embeddings))
        THEN batch_embeddings[k] ELSE embeddings[k]]

\* zip(batch_positions, batch_embeddings): embeddings[pos] = embedding
FillBatch(embeddings, batch_positions, batch_embeddings) ==
    [k \in 1..Len(embeddings) |->
        IF \E j \in 1..Min(Len(batch_positions), Len(batch_embeddings)) :
               batch_positions[j] + 1 = k
        THEN batch_embeddings[CHOOSE j \in 1..Len(batch_positions) :
                                  batch_positions[j] + 1 = k]
        ELSE embeddings[k]]

\* the frame after embeddings.create returned for the batch
AfterApiSuccess(g, batch, batch_positions) ==
    [g EXCEPT !.calls = Append(g.calls, [input |-> batch, ok |-> TRUE]),
              !.batch = batch,
              !.batch_embeddings = ApiEmbed(batch),
              !.embeddings = FillBatch(g.embeddings, batch_positions, ApiEmbed(batch)),
              !.pc = "cache_write"]

\* mutant: the failed batch is skipped and the loop goes on
AfterApiFailureSkip(g, batch) ==
    [g EXCEPT !.calls = Append(g.calls, [input |-> batch, ok |-> FALSE]),
              !.i = g.i + g.batch_size,
              !.pc = IF g.i + g.batch_size < Len(g.texts_to_embed)
                     THEN "batch" ELSE "return"]

\* the except clause: raise RuntimeError, leaving the loop
AfterApiFailure(g, batch) ==
    [g EXCEPT !.calls = Append(g.calls, [input |-> batch, ok |-> FALSE]),
              !.pc = "raised", !.error = "RuntimeError"]

\* one client.embeddings.create call for the batch at offset i; on success the
\* vectors are written into the result array, on failure generate raises
GenEmbed(t) ==
    /\ gen[t].pc = "batch"
    /\ LET g == gen[t]
           batch == Slice(g.texts_to_embed, g.i, g.batch_size)
           batch_positions == Slice(g.cache_positions, g.i, g.batch_size)
       IN  \E ok \in BOOLEAN :
             gen' = [gen EXCEPT ![t] =
                IF ok THEN AfterApiSuccess(g, batch, batch_positions)
                ELSE AfterApiFailure(g, batch)]
    /\ UNCHANGED <<store, now, cache_disabled, last, chunker, driver, mongo, idxVars>>

\* mutant: a cache write that reports failure ends generate
GenCacheWriteStrict(t) ==
    /\ gen[t].pc = "cache_write"
    /\ LET g == gen[t]
       IN  \E fault \in Faults, applied \in 0..Len(g.batch) :
             LET r == SetManyResult(store, cache_disabled, g.batch, EmbModel,
                                    g.batch_embeddings, now, fault, applied)
             IN  /\ fault \/ applied = Len(g.batch)
                 /\ applied < Len(g.batch) \/ ~fault
                 /\ store' = r.coll
                 /\ gen' = [gen EXCEPT ![t] =
                      IF ~r.ret
                      THEN [g EXCEPT !.pc = "raised", !.error = "PyMongoError"]
                      ELSE [g EXCEPT !.i = g.i + g.batch_size,
                                     !.batch = <<>>, !.batch_embeddings = <<>>,
                                     !.pc = IF g.i + g.batch_size < Len(g.texts_to_embed)
                                            THEN "batch" ELSE "return"]]
    /\ UNCHANGED <<now, cache_disabled, last, chunker, driver, mongo, idxVars>>

\* cache.set_many(batch, self.model, batch_embeddings), then the next batch
GenCacheWrite(t) ==
    /\ gen[t].pc = "cache_write"
    /\ LET g == gen[t]
       IN  \E fault \in Faults, applied \in 0..Len(g.batch) :
             LET r == SetManyResult(store, cache_disabled, g.batch, EmbModel,
                                    g.batch_embeddings, now, fault, applied)
             IN  /\ fault \/ applied = Len(g.batch)
                 /\ applied < Len(g.batch) \/ ~fault
                 /\ store' = r.coll
                 /\ gen' = [gen EXCEPT ![t] =
                      [g EXCEPT !.i = g.i + g.batch_size,
                                !.batch = <<>>, !.batch_embeddings = <<>>,
                                !.pc = IF g.i + g.batch_size < Len(g.texts_to_embed)
                                       THEN "batch" ELSE "return"]]
    /\ UNCHANGED <<now, cache_disabled, last, chunker, driver, mongo, idxVars>>

\* return np.array(embeddings)
GenReturn(t) ==
    /\ gen[t].pc = "return"
    /\ gen' = [gen EXCEPT ![t].pc = "returned"]
    /\ UNCHANGED <<store, now, cache_disabled, last, chunker, driver, mongo, idxVars>>

----------------------------------------------------------------------------
(* One client calling generate again and again on a shared cache *)

Caller == "caller"

\* an entry of EmbModel written by an earlier run
OldDoc(text, bytes) ==
    [text_hash |-> Sha256(text \o ":" \o EmbModel), model |-> EmbModel,
     text |-> text, value |-> bytes, created_at |-> 0]

GenInit ==
    /\ store \in SUBSET {OldDoc("a", PickleDumps(Vec("old", "a"))),
                         OldDoc("b", CorruptBytes)}
    /\ now = 0
    /\ cache_disabled \in BOOLEAN
    /\ last = NoOp
    /\ mongo \in {"up", "flaky"}
    /\ gen = [t \in {Caller} |-> Idle]
    /\ NoBatch
    /\ chunker = ChunkIdle
    /\ driver = DriverIdle

\* generate(texts, batch_size) is called; repeat tells that the call before it
\* returned and had the same texts
GenCall ==
    /\ gen[Caller].pc \in {"idle", "returned", "raised"}
    /\ \E texts \in SeqsUpTo(Texts, MaxTexts), batch_size \in 1..MaxBatch :
         gen' = [gen EXCEPT ![Caller] =
                   GenEnter(texts, batch_size,
                            gen[Caller].pc = "returned" /\ gen[Caller].texts = texts)]
    /\ UNCHANGED <<store, now, cache_disabled, last, chunker, driver, mongo, idxVars>>

GenNext ==
    \/ GenCall
    \/ GenLookup(Caller)
    \/ GenEmbed(Caller)
    \/ GenCacheWrite(Caller)
    \/ GenReturn(Caller)

SpecGen == GenInit /\ [][GenNext]_vars

----------------------------------------------------------------------------
(* The client from its construction on, with a store that may go away *)

Unbuilt == [Idle EXCEPT !.pc = "unbuilt"]

\* LLMCallCache.__init__: nothing is opened when the cache is disabled;
\* otherwise create_index talks to the store and a PyMongoError is re-raised
CacheInitResult(disabled, fault) ==
    IF disabled THEN "ok" ELSE IF fault THEN "PyMongoError" ELSE "ok"

\* EmbeddingsGenerator.__init__: the API key check, then the cache is built;
\* an exception of either leaves no generator to call
GeneratorInit(api_key, disabled, fault) ==
    IF ~api_key THEN [Unbuilt EXCEPT !.pc = "init_raised", !.error = "ValueError"]
    ELSE IF CacheInitResult(disabled, fault) # "ok"
    THEN [Unbuilt EXCEPT !.pc = "init_raised",
                         !.error = CacheInitResult(disabled, fault)]
    ELSE Idle

Build ==
    /\ gen[Caller].pc = "unbuilt"
    /\ \E api_key \in BOOLEAN, fault \in Faults :
         gen' = [gen EXCEPT ![Caller] = GeneratorInit(api_key, cache_disabled, fault)]
    /\ UNCHANGED <<store, now, cache_disabled, last, chunker, driver, mongo, idxVars>>

\* the store becomes unreachable
StoreOutage ==
    /\ mongo # "down"
    /\ mongo' = "down"
    /\ UNCHANGED <<store, now, cache_disabled, last, chunker, driver, gen, idxVars>>

BuildInit ==
    /\ store \in SUBSET {OldDoc("a", PickleDumps(Vec("old", "a"))),
                         OldDoc("b", CorruptBytes)}
    /\ now = 0
    /\ cache_disabled \in BOOLEAN
    /\ last = NoOp
    /\ mongo \in {"up", "down", "flaky"}
    /\ gen = [t \in {Caller} |-> Unbuilt]
    /\ NoBatch
    /\ chunker = ChunkIdle
    /\ driver = DriverIdle

BuildNext ==
    \/ Build
    \/ StoreOutage
    \/ GenCall
    \/ GenLookup(Caller)
    \/ GenEmbed(Caller)
    \/ GenCacheWrite(Caller)
    \/ GenReturn(Caller)

SpecBuild == BuildInit /\ [][BuildNext]_vars

----------------------------------------------------------------------------
(* text_chunker.py: TextChunker. A text is a sequence of one-character      *)
(* strings.                                                                *)

MaxLen == 6         \* longest text handed to chunk_text
MaxMaxTokens == 2   \* largest max_tokens of a chunker

Letters == {"a"}
Digits == {"1"}
Spaces == {" "}
Chars == Letters \cup Digits \cup Spaces \cup {"."}

\* TextChunker.sentence_splitters
SentenceSplitters == <<".">>

\* the number of consecutive characters of class S in s from position i on
RECURSIVE Run(_, _, _)
Run(s, i, S) == IF i > Len(s) \/ s[i] \notin S THEN 0 ELSE 1 + Run(s, i + 1, S)

\* the length of the token that starts at position i, after the split pattern
\* of cl100k_base: a word takes one leading space with it, a number of up to
\* three digits never does, a run of spaces before a word or number leaves
\* its last space to what follows; each piece is one token
PieceLen(s, i) ==
    IF s[i] \in Letters THEN Run(s, i, Letters)
    ELSE IF s[i] \in Digits THEN Min(Run(s, i, Digits), 3)
    ELSE IF s[i] \in Spaces
    THEN LET k == Run(s, i, Spaces)
         IN  IF i + k > Len(s) THEN k
             ELSE IF k >= 2 THEN k - 1
             ELSE IF s[i + 1] \in Letters THEN 1 + Run(s, i + 1, Letters)
             ELSE 1
    ELSE 1

\* tokenizer.encode: the tokens of s, each written as the characters it stands for
RECURSIVE EncodeFrom(_, _)
EncodeFrom(s, i) ==
    IF i > Len(s) THEN <<>>
    ELSE <<SubSeq(s, i, i + PieceLen(s, i) - 1)>> \o EncodeFrom(s, i + PieceLen(s, i))
Encode(s) == EncodeFrom(s, 1)

\* tokenizer.decode: the characters of the tokens, one after the other
RECURSIVE Decode(_)
Decode(tokens) == IF tokens = <<>> THEN <<>> ELSE Head(tokens) \o Decode(Tail(tokens))

\* str.split(splitter) for a one-character splitter: the pieces between the
\* occurrences, empty ones included
RECURSIVE SplitFrom(_, _, _, _)
SplitFrom(s, splitter, i, piece) ==
    IF i > Len(s) THEN <<piece>>
    ELSE IF s[i] = splitter THEN <<piece>> \o SplitFrom(s, splitter, i + 1, <<>>)
    ELSE SplitFrom(s, splitter, i + 1, Append(piece, s[i]))
StrSplit(s, splitter) == SplitFrom(s, splitter, 1, <<>>)

\* str.strip()
RECURSIVE LStrip(_)
LStrip(s) == IF s # <<>> /\ Head(s) \in Spaces THEN LStrip(Tail(s)) ELSE s
RECURSIVE RStrip(_)
RStrip(s) ==
    IF s # <<>> /\ s[Len(s)] \in Spaces THEN RStrip(SubSeq(s, 1, Len(s) - 1)) ELSE s
Strip(s) == RStrip(LStrip(s))

\* new_sentences.extend(sentence.split(splitter)) over all sentences
RECURSIVE SplitAll(_, _)
SplitAll(sentences, splitter) ==
    IF sentences = <<>> THEN <<>>
    ELSE StrSplit(Head(sentences), splitter) \o SplitAll(Tail(sentences), splitter)

RECURSIVE SplitBySplitters(_, _)
SplitBySplitters(sentences, splitters) ==
    IF splitters = <<>> THEN sentences
    ELSE SplitBySplitters(SplitAll(sentences, Head(splitters)), Tail(splitters))

\* [s.strip() for s in sentences if s.strip()]
RECURSIVE StripNonEmpty(_)
StripNonEmpty(sentences) ==
    IF sentences = <<>> THEN <<>>
    ELSE IF Strip(Head(sentences)) = <<>> THEN StripNonEmpty(Tail(sentences))
    ELSE <<Strip(Head(sentences))>> \o StripNonEmpty(Tail(sentences))

\* TextChunker._split_into_sentences
SplitIntoSentences(text) ==
    StripNonEmpty(SplitBySplitters(<<text>>, SentenceSplitters))

\* " ".join(current_chunk)
RECURSIVE JoinWithSpace(_)
JoinWithSpace(strs) ==
    IF strs = <<>> THEN <<>>
    ELSE IF Len(strs) = 1 THEN Head(strs)
    ELSE Head(strs) \o <<" ">> \o JoinWithSpace(Tail(strs))

\* mutant: the long sentence is emitted whole, as one chunk
TokenWindowsWhole(tokens, i, n) ==
    IF i >= Len(tokens) THEN <<>> ELSE <<Decode(tokens)>>

\* for i in range(0, len(tokens), max_tokens): decode(tokens[i:i + max_tokens])
RECURSIVE TokenWindows(_, _, _)
TokenWindows(tokens, i, n) ==
    IF i >= Len(tokens) THEN <<>>
    ELSE <<Decode(Slice(tokens, i, n))>> \o TokenWindows(tokens, i + n, n)

\* entry of chunk_text: the sentences and the empty accumulators
ChunkEnter(text, max_tokens) ==
    [ChunkIdle EXCEPT !.pc = "loop", !.text = text, !.max_tokens = max_tokens,
                      !.sentences = SplitIntoSentences(text)]

\* mutant: the pending sentences are emitted before the windows of a long
\* sentence, and the accumulator starts again
AfterSentenceFlush(c) ==
    LET sentence == c.sentences[c.k + 1]
        sentence_tokens == Len(Encode(sentence))
    IN  IF sentence_tokens > c.max_tokens
        THEN [c EXCEPT !.chunks = (IF c.current_chunk # <<>>
                                   THEN Append(c.chunks, JoinWithSpace(c.current_chunk))
                                   ELSE c.chunks)
                                  \o TokenWindows(Encode(sentence), 0, c.max_tokens),
                       !.current_chunk = <<>>,
                       !.current_tokens = 0,
                       !.k = c.k + 1]
        ELSE IF c.current_tokens + sentence_tokens > c.max_tokens
        THEN [c EXCEPT !.chunks = Append(c.chunks, JoinWithSpace(c.current_chunk)),
                       !.current_chunk = <<sentence>>,
                       !.current_tokens = sentence_tokens,
                       !.k = c.k + 1]
        ELSE [c EXCEPT !.current_chunk = Append(c.current_chunk, sentence),
                       !.current_tokens = c.current_tokens + sentence_tokens,
                       !.k = c.k + 1]

\* one pass of the loop body, for the sentence at position k
AfterSentence(c) ==
    LET sentence == c.sentences[c.k + 1]
        sentence_tokens == Len(Encode(sentence))
    IN  IF sentence_tokens > c.max_tokens
        THEN [c EXCEPT !.chunks = c.chunks \o TokenWindows(Encode(sentence), 0, c.max_tokens),
                       !.k = c.k + 1]
        ELSE IF c.current_tokens + sentence_tokens > c.max_tokens
        THEN [c EXCEPT !.chunks = Append(c.chunks, JoinWithSpace(c.current_chunk)),
                       !.current_chunk = <<sentence>>,
                       !.current_tokens = sentence_tokens,
                       !.k = c.k + 1]
        ELSE [c EXCEPT !.current_chunk = Append(c.current_chunk, sentence),
                       !.current_tokens = c.current_tokens + sentence_tokens,
                       !.k = c.k + 1]

\* after the loop: the last accumulated chunk, and the return
AfterLoop(c) ==
    [c EXCEPT !.chunks = IF c.current_chunk # <<>>
                         THEN Append(c.chunks, JoinWithSpace(c.current_chunk))
                         ELSE c.chunks,
              !.pc = "returned"]

\* chunk_text(text) on a chunker built with max_tokens; one call is followed
\* from its entry to its return
ChunkCall ==
    /\ chunker.pc = "idle"
    /\ \E text \in SeqsUpTo(Chars, MaxLen), max_tokens \in 1..MaxMaxTokens :
         chunker' = ChunkEnter(text, max_tokens)
    /\ UNCHANGED <<store, now, cache_disabled, last, mongo, gen, idxVars, driver>>

ChunkSentence ==
    /\ chunker.pc = "loop"
    /\ chunker.k < Len(chunker.sentences)
    /\ chunker' = AfterSentence(chunker)
    /\ UNCHANGED <<store, now, cache_disabled, last, mongo, gen, idxVars, driver>>

ChunkReturn ==
    /\ chunker.pc = "loop"
    /\ chunker.k = Len(chunker.sentences)
    /\ chunker' = AfterLoop(chunker)
    /\ UNCHANGED <<store, now, cache_disabled, last, mongo, gen, idxVars, driver>>

ChunkInit ==
    /\ store = {}
    /\ now = 0
    /\ cache_disabled = FALSE
    /\ last = NoOp
    /\ mongo = "up"
    /\ gen = <<>>
    /\ NoBatch
    /\ chunker = ChunkIdle
    /\ driver = DriverIdle

ChunkNext == ChunkCall \/ ChunkSentence \/ ChunkReturn

SpecChunk == ChunkInit /\ [][ChunkNext]_vars

----------------------------------------------------------------------------
(* es_indexer.py: DocumentIndexer *)

\* stop_after_attempt(3)
MaxAttempts == 3

\* the default batch_size of generate, used by _index_with_chunks
DefaultBatchSize == 100

\* a chunk dict given without a 'metadata' key
Absent == <<"absent">>
EmptyDict == <<"dict">>

Chunk(content, chunk_type, metadata) ==
    [content |-> content, chunk_type |-> chunk_type, metadata |-> metadata]

\* chunk.get('metadata', {})
ChunkMetadata(chunk) == IF chunk.metadata = Absent THEN EmptyDict ELSE chunk.metadata

\* ndarray.tolist()
ToList(vector) == <<"list">> \o Tail(vector)

\* mutant: positions counted from 1
ChunkEntryFromOne(chunk, i, vector) ==
    [content |-> chunk.content, position |-> i + 1, chunk_type |-> chunk.chunk_type,
     metadata |-> ChunkMetadata(chunk), vector |-> ToList(vector)]

\* one entry of the "chunks" list of the indexed document (i is 0-based)
ChunkEntry(chunk, i, vector) ==
    [content |-> chunk.content, position |-> i, chunk_type |-> chunk.chunk_type,
     metadata |-> ChunkMetadata(chunk), vector |-> ToList(vector)]

\* the document dict of _index_with_chunks; zip() stops at the shorter list
BuildDocument(doc_id, title, chunks, chunk_vectors) ==
    [title |-> title, url |-> doc_id,
     chunks |-> [k \in 1..Min(Len(chunks), Len(chunk_vectors)) |->
                   ChunkEntry(chunks[k], k - 1, chunk_vectors[k])]]

\* mutant: the write without id=, so Elasticsearch makes up a new id each time
EsIndexAutoId(idx, id, body) ==
    idx \cup {[id |-> <<"auto", Cardinality(idx)>>, body |-> body]}

\* es.index(index=domain, id=doc_id, body=document): insert or replace by id
EsIndex(idx, id, body) ==
    {r \in idx : r.id # id} \cup {[id |-> id, body |-> body]}

\* mutant: one attempt too many
StopAfterAttemptOffByOne(attempt_number) == attempt_number > MaxAttempts

\* tenacity stop_after_attempt(3): no retry once this many attempts were made
StopAfterAttempt(attempt_number) == attempt_number >= MaxAttempts

ChunkTexts(chunks) == [k \in 1..Len(chunks) |-> chunks[k].content]

Tasks == 1..Len(documents)

\* the attempt of task t ended with an exception: tenacity sleeps and retries,
\* or gives up and the future holds the error
AttemptFailed(t) ==
    [task EXCEPT ![t].state = IF StopAfterAttempt(task[t].attempt)
                             THEN "err" ELSE "backoff"]

\* a pool thread takes the work item of document t: first attempt, at the
\* entry of generate(chunk_texts)
TaskStart(t) ==
    /\ task[t].state = "pending"
    /\ task' = [task EXCEPT ![t] = [state |-> "running", attempt |-> 1]]
    /\ gen' = [gen EXCEPT ![t] =
                 GenEnter(ChunkTexts(documents[t].chunks), DefaultBatchSize, FALSE)]
    /\ UNCHANGED <<store, now, cache_disabled, last, chunker, driver, mongo,
                   documents, mainpc, collected, results, index, lastWrite>>

\* generate raised inside the attempt
AttemptRaised(t) ==
    /\ task[t].state = "running"
    /\ gen[t].pc = "raised"
    /\ task' = AttemptFailed(t)
    /\ UNCHANGED <<store, now, cache_disabled, last, chunker, driver, mongo, gen,
                   documents, mainpc, collected, results, index, lastWrite>>

\* generate returned: the document is built and written with es.index, which
\* succeeds (return True) or raises; tolist() of a missing vector raises too
IndexWrite(t) ==
    /\ task[t].state = "running"
    /\ gen[t].pc = "returned"
    /\ LET doc == documents[t]
           document == BuildDocument(doc.url, doc.title, doc.chunks, gen[t].embeddings)
       IN  \E ok \in BOOLEAN :
             IF ok /\ \A k \in 1..Len(gen[t].embeddings) : gen[t].embeddings[k] # None
             THEN /\ index' = EsIndex(index, doc.url, document)
                  /\ lastWrite' = [lastWrite EXCEPT ![doc.url] = document]
                  /\ task' = [task EXCEPT ![t].state = "ok"]
             ELSE /\ task' = AttemptFailed(t)
                  /\ UNCHANGED <<index, lastWrite>>
    /\ UNCHANGED <<store, now, cache_disabled, last, chunker, driver, mongo, gen,
                   documents, mainpc, collected, results>>

\* the backoff sleep is over: next attempt
Retry(t) ==
    /\ task[t].state = "backoff"
    /\ task' = [task EXCEPT ![t] = [state |-> "running", attempt |-> @.attempt + 1]]
    /\ gen' = [gen EXCEPT ![t] =
                 GenEnter(ChunkTexts(documents[t].chunks), DefaultBatchSize, FALSE)]
    /\ UNCHANGED <<store, now, cache_disabled, last, chunker, driver, mongo,
                   documents, mainpc, collected, results, index, lastWrite>>

\* executor.submit for the next document of the list
Submit ==
    /\ mainpc = "submit"
    /\ LET k == CHOOSE k \in Tasks :
                   /\ task[k].state = "unsubmitted"
                   /\ \A j \in 1..(k - 1) : task[j].state # "unsubmitted"
       IN  /\ task' = [task EXCEPT ![k].state = "pending"]
           /\ mainpc' = IF k = Len(documents) THEN "collect" ELSE "submit"
    /\ UNCHANGED <<store, now, cache_disabled, last, chunker, driver, mongo, gen,
                   documents, collected, results, index, lastWrite>>

\* mutant: a failure replaces the failed list instead of extending it
AfterFutureOverwrite(res, state, url) ==
    IF state = "ok" THEN [res EXCEPT !.success = @ + 1]
    ELSE [res EXCEPT !.failed = <<url>>]

\* mutant: the increment of a success is lost
AfterFutureLostUpdate(res, state, url) ==
    IF state = "ok" THEN res
    ELSE [res EXCEPT !.failed = Append(@, url)]

\* the body of the as_completed loop for one finished future
AfterFuture(res, state, url) ==
    IF state = "ok" THEN [res EXCEPT !.success = @ + 1]
    ELSE [res EXCEPT !.failed = Append(@, url)]

\* as_completed yields a finished future, in completion order
Collect(t) ==
    /\ mainpc = "collect"
    /\ t \notin collected
    /\ task[t].state \in {"ok", "err"}
    /\ collected' = collected \cup {t}
    /\ results' = AfterFuture(results, task[t].state, documents[t].url)
    /\ UNCHANGED <<store, now, cache_disabled, last, chunker, driver, mongo, gen,
                   documents, task, mainpc, index, lastWrite>>

\* mutant: return as soon as the futures are submitted
ReturnGuardNoWait == TRUE

\* as_completed is exhausted and the with block's shutdown(wait=True) is over
ReturnGuard ==
    /\ \A t \in Tasks : t \in collected
    /\ \A t \in Tasks : task[t].state \in {"ok", "err"}

\* return results
Return ==
    /\ mainpc = "collect"
    /\ ReturnGuard
    /\ mainpc' = "returned"
    /\ UNCHANGED <<store, now, cache_disabled, last, chunker, driver, mongo, gen,
                   documents, task, collected, results, index, lastWrite>>

----------------------------------------------------------------------------
(* One call of index_batch_with_chunks on an index and a cache that earlier
   runs may have filled *)

Urls == {"u1", "u2", "u3"}

DocA  == [url |-> "u1", title |-> "A",
          chunks |-> <<Chunk("a", "document", None)>>]
DocB  == [url |-> "u2", title |-> "B",
          chunks |-> <<Chunk("a", "answer", <<"dict", "answer", "x">>),
                       Chunk("b", "answer", Absent)>>]
DocA2 == [url |-> "u1", title |-> "A2",
          chunks |-> <<Chunk("b", "document", None)>>]
DocE  == [url |-> "u3", title |-> "E", chunks |-> <<>>]

\* most documents handed to one index_batch_with_chunks call
MaxDocs == 2

Batches ==
    {b \in {<<DocA>>, <<DocE>>, <<DocA, DocB>>, <<DocA, DocA2>>, <<DocB, DocE>>,
            <<DocA, DocE, DocA2>>} : Len(b) <= MaxDocs}

DocUniverse == {DocA, DocB, DocA2, DocE}

\* lastWrite of a url nobody has written
NoBody == [title |-> "", url |-> "", chunks |-> <<>>]

\* the record an earlier run left for DocA2
EarlierBody ==
    [title |-> "A2", url |-> "u1",
     chunks |-> <<[content |-> "b", position |-> 0, chunk_type |-> "document",
                   metadata |-> None, vector |-> <<"list", "api", "b">>]>>]

IdxInit ==
    /\ store \in {{}, {OldDoc("a", PickleDumps(Vec("old", "a")))}}
    /\ now = 0
    /\ cache_disabled \in BOOLEAN
    /\ last = NoOp
    /\ mongo \in {"up", "down"}
    /\ documents \in Batches
    /\ gen = [t \in 1..Len(documents) |-> Idle]
    /\ task = [t \in 1..Len(documents) |-> [state |-> "unsubmitted", attempt |-> 0]]
    /\ mainpc = "submit"
    /\ collected = {}
    /\ results = [success |-> 0, failed |-> <<>>]
    /\ chunker = ChunkIdle
    /\ driver = DriverIdle
    /\ \E earlier \in BOOLEAN :
         /\ index = IF earlier THEN {[id |-> "u1", body |-> EarlierBody]} ELSE {}
         /\ lastWrite = [u \in Urls |-> IF earlier /\ u = "u1" THEN EarlierBody ELSE NoBody]

IdxNext ==
    \/ Submit
    \/ \E t \in Tasks : TaskStart(t)
    \/ \E t \in Tasks : GenLookup(t)
    \/ \E t \in Tasks : GenEmbed(t)
    \/ \E t \in Tasks : GenCacheWrite(t)
    \/ \E t \in Tasks : GenReturn(t)
    \/ \E t \in Tasks : AttemptRaised(t)
    \/ \E t \in Tasks : IndexWrite(t)
    \/ \E t \in Tasks : Retry(t)
    \/ \E t \in Tasks : Collect(t)
    \/ Return

Spec == IdxInit /\ [][IdxNext]_vars

----------------------------------------------------------------------------
(* driver.py: _run_indexing, from its call to its return or exception *)

MaxMeta == 2     \* most entries of docs_metadata
MaxSlice == 2    \* largest batch_size of the driver

\* an entry of docs_metadata: the document its files would give, and whether
\* the file the preparation opens (content file, or .qa.json file) can be
\* found and read
Meta(doc, readable) == [doc |-> doc, readable |-> readable]

MetadataSets ==
    {m \in {<<Meta(DocA, TRUE)>>,
             <<Meta(DocA, TRUE), Meta(DocB, TRUE)>>,
             <<Meta(DocA, FALSE), Meta(DocB, TRUE)>>,
             <<Meta(DocB, TRUE), Meta(DocE, TRUE)>>,
             <<Meta(DocA, TRUE), Meta(DocB, TRUE), Meta(DocE, TRUE)>>} :
        Len(m) <= MaxMeta}

\* _prepare_content_documents: a file that cannot be read is logged and
\* skipped; a document without chunks is appended like any other
RECURSIVE PrepareContentDocuments(_)
PrepareContentDocuments(docs_metadata) ==
    IF docs_metadata = <<>> THEN <<>>
    ELSE (IF Head(docs_metadata).readable THEN <<Head(docs_metadata).doc>> ELSE <<>>)
         \o PrepareContentDocuments(Tail(docs_metadata))

\* _prepare_qa_documents: a missing or unreadable .qa.json file and a document
\* without chunks are skipped
RECURSIVE PrepareQaDocuments(_)
PrepareQaDocuments(docs_metadata) ==
    IF docs_metadata = <<>> THEN <<>>
    ELSE (IF Head(docs_metadata).readable /\ Head(docs_metadata).doc.chunks # <<>>
          THEN <<Head(docs_metadata).doc>> ELSE <<>>)
         \o PrepareQaDocuments(Tail(docs_metadata))

\* prepare_documents as index_documents or index_question_and_answer pass it
PrepareDocuments(kind, docs_metadata) ==
    IF kind = "qa" THEN PrepareQaDocuments(docs_metadata)
    ELSE PrepareContentDocuments(docs_metadata)

\* datetime.now().isoformat() and a number of seconds
IsoTime(t) == <<"iso", t>>
Seconds(n) == <<"seconds", n>>

\* configuration and metadata are loaded; a missing metadata file raises
\* FileNotFoundError before stats exists; otherwise stats is initialised
AfterLoad(d, found, current_time) ==
    IF ~found THEN [d EXCEPT !.pc = "raised", !.error = "FileNotFoundError"]
    ELSE [d EXCEPT !.pc = "build",
                   !.stats = [total_documents |-> Len(d.docs_metadata),
                              successful |-> 0, failed |-> <<>>,
                              start_time |-> IsoTime(current_time),
                              end_time |-> NoTime,
                              duration_seconds |-> NoTime]]

DriverLoad ==
    /\ driver.pc = "load"
    /\ \E found \in BOOLEAN : driver' = AfterLoad(driver, found, now)
    /\ UNCHANGED <<store, now, cache_disabled, last, chunker, mongo, gen, idxVars>>

\* inside try: EmbeddingsGenerator(), DocumentIndexer, TextChunker; an
\* exception of the generator's construction goes to except and finally
DriverBuild ==
    /\ driver.pc = "build"
    /\ \E api_key \in BOOLEAN, fault \in Faults :
         LET g == GeneratorInit(api_key, cache_disabled, fault)
         IN  driver' = IF g.pc = "init_raised"
                       THEN [driver EXCEPT !.pc = "finally", !.error = g.error]
                       ELSE [driver EXCEPT !.pc = "prepare"]
    /\ UNCHANGED <<store, now, cache_disabled, last, chunker, mongo, gen, idxVars>>

\* documents = prepare_documents(...)
DriverPrepare ==
    /\ driver.pc = "prepare"
    /\ driver' = [driver EXCEPT
                    !.documents = PrepareDocuments(driver.kind, driver.docs_metadata),
                    !.i = 0,
                    !.pc = "loop"]
    /\ UNCHANGED <<store, now, cache_disabled, last, chunker, mongo, gen, idxVars>>

\* batch = documents[i:i + batch_size]; indexer.index_batch_with_chunks(batch)
\* is entered
DriverSlice ==
    /\ driver.pc = "loop"
    /\ driver.i < Len(driver.documents)
    /\ LET batch == Slice(driver.documents, driver.i, driver.batch_size)
       IN  /\ documents' = batch
           /\ task' = [t \in 1..Len(batch) |-> [state |-> "unsubmitted", attempt |-> 0]]
           /\ gen' = [t \in 1..Len(batch) |-> Idle]
    /\ mainpc' = "submit"
    /\ collected' = {}
    /\ results' = [success |-> 0, failed |-> <<>>]
    /\ driver' = [driver EXCEPT !.pc = "batch"]
    /\ UNCHANGED <<store, now, cache_disabled, last, chunker, mongo, index, lastWrite>>

\* mutant: the counts of a slice replace the totals
AfterSliceOverwrite(stats, res) ==
    [stats EXCEPT !.successful = res.success, !.failed = res.failed]

\* stats['successful'] += results['success'];
\* stats['failed'].extend(results['failed'])
AfterSlice(stats, res) ==
    [stats EXCEPT !.successful = @ + res.success, !.failed = @ \o res.failed]

\* index_batch_with_chunks returned for the slice; next i of the range
DriverSliceDone ==
    /\ driver.pc = "batch"
    /\ mainpc = "returned"
    /\ driver' = [driver EXCEPT
                    !.stats = AfterSlice(driver.stats, results),
                    !.calls = Append(@, [batch |-> documents, results |-> results]),
                    !.i = @ + driver.batch_size,
                    !.pc = "loop"]
    /\ UNCHANGED <<store, now, cache_disabled, last, chunker, mongo, gen, idxVars>>

\* an exception that is no document's failure (index_batch_with_chunks could
\* not start its pool, say) leaves the loop through except and finally
DriverUnexpected ==
    /\ driver.pc = "loop"
    /\ driver.i < Len(driver.documents)
    /\ driver' = [driver EXCEPT !.pc = "finally", !.error = "Exception"]
    /\ UNCHANGED <<store, now, cache_disabled, last, chunker, mongo, gen, idxVars>>

\* the range is exhausted
DriverLoopExit ==
    /\ driver.pc = "loop"
    /\ driver.i >= Len(driver.documents)
    /\ driver' = [driver EXCEPT !.pc = "finally"]
    /\ UNCHANGED <<store, now, cache_disabled, last, chunker, mongo, gen, idxVars>>

\* the finally block: end_time, duration_seconds, save_stats; then return
\* stats, or the exception goes on to the caller
AfterFinally(d, current_time) ==
    LET stats == [d.stats EXCEPT
                    !.end_time = IsoTime(current_time),
                    !.duration_seconds = Seconds(current_time - d.stats.start_time[2])]
    IN  [d EXCEPT !.stats = stats,
                  !.saved = Append(@, stats),
                  !.pc = IF d.error = "" THEN "done" ELSE "raised"]

DriverFinally ==
    /\ driver.pc = "finally"
    /\ driver' = AfterFinally(driver, now)
    /\ UNCHANGED <<store, now, cache_disabled, last, chunker, mongo, gen, idxVars>>

DriverInit ==
    /\ store = {}
    /\ now = 0
    /\ cache_disabled \in BOOLEAN
    /\ last = NoOp
    /\ mongo \in {"up", "down"}
    /\ gen = <<>>
    /\ documents = <<>>
    /\ task = <<>>
    /\ mainpc = "none"
    /\ collected = {}
    /\ results = [success |-> 0, failed |-> <<>>]
    /\ index = {}
    /\ lastWrite = [u \in Urls |-> NoBody]
    /\ chunker = ChunkIdle
    /\ \E kind \in {"content", "qa"}, docs_metadata \in MetadataSets,
          batch_size \in 1..MaxSlice :
         driver = [DriverIdle EXCEPT !.pc = "load", !.kind = kind,
                                     !.docs_metadata = docs_metadata,
                                     !.batch_size = batch_size]

DriverNext ==
    \/ DriverLoad
    \/ DriverBuild
    \/ DriverPrepare
    \/ DriverSlice
    \/ DriverSliceDone
    \/ DriverUnexpected
    \/ DriverLoopExit
    \/ DriverFinally
    \/ IdxNext

SpecDriver == DriverInit /\ [][DriverNext]_vars

----------------------------------------------------------------------------
(* One client calling generate_single again and again on a shared cache *)

\* the texts handed to generate_single: the empty string, a blank, two words
SingleTexts == {"", " ", "a", "b"}

\* generate_single(text): `if not text` raises for the empty string only;
\* every other text goes to generate([text]) with the default batch size
GenerateSingleEnter(text) ==
    IF text = ""
    THEN [Idle EXCEPT !.pc = "raised", !.error = "ValueError"]
    ELSE GenEnter(<<text>>, DefaultBatchSize, FALSE)

GenSingleCall ==
    /\ gen[Caller].pc \in {"idle", "returned", "raised"}
    /\ \E text \in SingleTexts :
         gen' = [gen EXCEPT ![Caller] = GenerateSingleEnter(text)]
    /\ UNCHANGED <<store, now, cache_disabled, last, chunker, driver, mongo, idxVars>>

SingleNext ==
    \/ GenSingleCall
    \/ GenLookup(Caller)
    \/ GenEmbed(Caller)
    \/ GenCacheWrite(Caller)
    \/ GenReturn(Caller)

SpecSingle == GenInit /\ [][SingleNext]_vars

----------------------------------------------------------------------------
(* Properties of index_batch_with_chunks (checked under Spec) *)

Final(t) == task[t].state \in {"ok", "err"}
Succeeded == {t \in Tasks : task[t].state = "ok"}
Failing == {t \in Tasks : task[t].state = "err"}

Count(seq, x) == Cardinality({k \in 1..Len(seq) : seq[k] = x})

\* C3: partial failure accounting. When index_batch_with_chunks returns,
\* success is the number of documents that were indexed, failed holds the url
\* of every document whose attempts all failed, once per such document,
\* success + len(failed) = len(documents), and every document that did not
\* fail has its url in the index, whatever the siblings did and in whatever
\* order the workers finished.
C3_PartialFailure ==
    /\ results.success + Len(results.failed) = Cardinality(collected)
    /\ mainpc = "returned" =>
          /\ results.success = Len(documents) - Cardinality(Failing)
          /\ Len(results.failed) = Cardinality(Failing)
          /\ \A u \in Urls :
                Count(results.failed, u)
                    = Cardinality({t \in Failing : documents[t].url = u})
          /\ results.success + Len(results.failed) = Len(documents)
          /\ \A t \in Failing : task[t].attempt = MaxAttempts
          /\ \A t \in Tasks \ Failing :
                /\ task[t].state = "ok"
                /\ \E r \in index : r.id = documents[t].url

\* C3 witness: of two documents the one without chunks failed every attempt
\* and the other one was indexed.
C3_Witness ==
    /\ mainpc = "returned"
    /\ documents = <<DocB, DocE>>
    /\ results = [success |-> 1, failed |-> <<"u3">>]
    /\ \E r \in index : r.id = "u2"

\* the vector of an indexed chunk belongs to its content and is not missing
VectorOf(content) == {ToList(Vec("api", content)), ToList(Vec("old", content))}

WellFormed(r) ==
    \E d \in DocUniverse :
        /\ r.id = d.url /\ r.body.url = d.url /\ r.body.title = d.title
        /\ Len(r.body.chunks) = Len(d.chunks)
        /\ \A k \in 1..Len(d.chunks) :
              LET e == r.body.chunks[k]
              IN  /\ e.position = k - 1
                  /\ e.content = d.chunks[k].content
                  /\ e.chunk_type = d.chunks[k].chunk_type
                  /\ e.metadata = ChunkMetadata(d.chunks[k])
                  /\ e.vector # None
                  /\ e.vector \in VectorOf(e.content)

C4_WrittenAfterGenerate ==
    index' # index =>
        \E t \in Tasks :
            /\ task[t].state = "running" /\ gen[t].pc = "returned"
            /\ task'[t].state = "ok"
            /\ Len(gen[t].embeddings) = Len(documents[t].chunks)
            /\ \E r \in index' :
                  /\ r.id = documents[t].url
                  /\ Len(r.body.chunks) = Len(documents[t].chunks)
                  /\ \A k \in 1..Len(documents[t].chunks) :
                        /\ gen[t].embeddings[k] # None
                        /\ r.body.chunks[k].vector = ToList(gen[t].embeddings[k])
                        /\ r.body.chunks[k].position = k - 1
                        /\ r.body.chunks[k].content = documents[t].chunks[k].content

\* C4: no chunk without a vector reaches the index. The index changes only by
\* the write of an attempt whose generate call has returned, the written
\* record has one entry per chunk of the document, and entry i carries
\* position i, the content, chunk_type and metadata of chunk i and the vector
\* generate returned at index i; every record of the index is of that form.
C4_ChunksCarryVectors ==
    [](\A r \in index : WellFormed(r)) /\ [][C4_WrittenAfterGenerate]_vars

\* C4 witness: a two-chunk document indexed with the cached vector of its
\* first chunk and the freshly fetched vector of its second.
C4_Witness ==
    \E r \in index :
        /\ r.id = "u2" /\ Len(r.body.chunks) = 2
        /\ r.body.chunks[1].vector = ToList(Vec("old", "a"))
        /\ r.body.chunks[2].vector = ToList(Vec("api", "b"))
        /\ r.body.chunks[2].position = 1

C6_AllFinal ==
    mainpc = "returned" =>
        \A t \in Tasks :
            /\ Final(t)
            /\ t \in collected
            /\ gen[t].pc \in {"returned", "raised"}

C6_NothingAfterReturn ==
    mainpc = "returned" =>
        /\ index' = index /\ store' = store /\ gen' = gen /\ task' = task

\* C6: fan-in. When index_batch_with_chunks has returned, every submitted
\* document is succeeded or failed, no task is running or waiting to retry,
\* no generate call is in progress, and from then on no task takes a step:
\* no embedding call, cache write or index write of the batch follows.
C6_ReturnsAfterAll ==
    []C6_AllFinal /\ [][C6_NothingAfterReturn]_vars

\* C6 witness: the call has returned from a batch in which one document used
\* up its attempts and another was indexed after a retry.
C6_Witness ==
    /\ mainpc = "returned"
    /\ \E t \in Tasks : task[t].state = "err" /\ task[t].attempt = MaxAttempts
    /\ \E t \in Tasks : task[t].state = "ok" /\ task[t].attempt = 2

C7_Bounded ==
    \A t \in Tasks :
        /\ task[t].attempt <= MaxAttempts
        /\ task[t].state = "err" => task[t].attempt = MaxAttempts
        /\ task[t].state = "backoff" => task[t].attempt < MaxAttempts

C7_Step ==
    \A t \in Tasks :
        /\ Final(t) => task'[t] = task[t]
        /\ (task[t].state = "running" /\ task'[t] # task[t]) =>
              /\ task'[t].attempt = task[t].attempt
              /\ \/ task'[t].state = "ok" /\ gen[t].pc = "returned"
                 \/ task'[t].state = "backoff" /\ task[t].attempt < MaxAttempts
                 \/ task'[t].state = "err" /\ task[t].attempt = MaxAttempts
        /\ (task[t].state = "backoff" /\ task'[t] # task[t]) =>
              task'[t] = [state |-> "running", attempt |-> task[t].attempt + 1]

\* C7: retry policy. An attempt that fails, in the embedding call or in the
\* index write, is followed by another attempt as long as fewer than
\* MaxAttempts (3) attempts were made; a document that succeeded or failed is
\* never attempted again; a document is failed only when its MaxAttempts-th
\* attempt failed; and no document is attempted more than MaxAttempts times.
C7_RetryPolicy ==
    []C7_Bounded /\ [][C7_Step]_vars

\* C7 witness: a document recorded as failed after its third attempt got
\* through generate and failed in the index write.
C7_Witness ==
    \E t \in Tasks :
        /\ task[t].state = "err" /\ task[t].attempt = MaxAttempts
        /\ gen[t].pc = "returned"
        /\ t \in collected /\ documents[t].url \in {results.failed[k] : k \in 1..Len(results.failed)}

\* C8: one record per url, last write wins. The index never holds two records
\* for one url; a url nobody wrote has no record, and a url that was written
\* (by an earlier run, or by one or several documents of this batch) has
\* exactly the record of the last write that completed.
C8_LastWriteWins ==
    /\ \A r1, r2 \in index : r1.body.url = r2.body.url => r1 = r2
    /\ \A u \in Urls :
          {r \in index : r.body.url = u}
              = IF lastWrite[u] = NoBody THEN {}
                ELSE {[id |-> u, body |-> lastWrite[u]]}

\* C8 witness: two documents with the same url were both indexed, over a
\* record of an earlier run; the index holds the record of the first one,
\* which completed last.
C8_Witness ==
    /\ documents = <<DocA, DocA2>>
    /\ task[1].state = "ok" /\ task[2].state = "ok"
    /\ lastWrite["u1"].title = "A"
    /\ index = {[id |-> "u1",
                 body |-> BuildDocument("u1", "A", DocA.chunks, <<Vec("api", "a")>>)]}

----------------------------------------------------------------------------
(* Properties of generate (checked under SpecGen) *)

G == gen[Caller]

IsHit(g, k) == g.cache_results[k][2] # None

\* the texts of the miss positions of the lookup, in input order
RECURSIVE MissTexts(_, _)
MissTexts(g, k) ==
    IF k > Len(g.texts) THEN <<>>
    ELSE IF IsHit(g, k) THEN MissTexts(g, k + 1)
         ELSE <<g.texts[k]>> \o MissTexts(g, k + 1)

RECURSIVE SentTexts(_)
SentTexts(calls) ==
    IF calls = <<>> THEN <<>> ELSE Head(calls).input \o SentTexts(Tail(calls))

CeilDiv(m, n) == (m + n - 1) \div n

IsPrefix(p, q) == Len(p) <= Len(q) /\ p = SubSeq(q, 1, Len(p))

\* C1: a generate that returns gives exactly len(texts) vectors, and the one
\* at position i is the cached value when the lookup reported a hit for
\* texts[i], otherwise the vector the external model returned for texts[i].
C1_Aligned ==
    G.pc = "returned" =>
        /\ Len(G.texts) >= 1
        /\ Len(G.embeddings) = Len(G.texts)
        /\ \A k \in 1..Len(G.texts) :
              /\ G.embeddings[k] # None
              /\ G.embeddings[k] = IF IsHit(G, k) THEN G.cache_results[k][2]
                                   ELSE Vec("api", G.texts[k])

\* C1 witness: three texts, the middle one a hit on an entry of an earlier
\* run, the other two fetched in two separate batches.
C1_Witness ==
    /\ G.pc = "returned" /\ G.batch_size = 1
    /\ G.texts = <<"b", "a", "b">>
    /\ G.embeddings = <<Vec("api", "b"), Vec("old", "a"), Vec("api", "b")>>
    /\ Len(G.calls) = 2

\* C2: only misses go to the external model. At any moment of a call the
\* batches sent so far hold at most batch_size texts each and are, joined, a
\* prefix of the miss texts in input order; a call that returns with m misses
\* made exactly ceil(m / batch_size) external calls carrying all m miss texts;
\* and a call that repeats the texts of the call that returned just before it,
\* on an enabled cache with a healthy store, makes no external call.
C2_OnlyMisses ==
    /\ G.pc \in {"batch", "cache_write", "return", "returned", "raised"}
         /\ G.error # "UnpicklingError" /\ G.texts # <<>> =>
          /\ \A c \in 1..Len(G.calls) :
                Len(G.calls[c].input) \in 1..G.batch_size
          /\ IsPrefix(SentTexts(G.calls), MissTexts(G, 1))
    /\ G.pc = "returned" =>
          /\ Len(G.calls) = CeilDiv(Len(MissTexts(G, 1)), G.batch_size)
          /\ SentTexts(G.calls) = MissTexts(G, 1)
    /\ (G.repeat /\ mongo = "up" /\ ~cache_disabled /\ G.pc # "lookup") =>
          G.calls = <<>>

\* C2 witness: an all-miss call on three texts with batch_size 2 that returned
\* after ceil(3 / 2) = 2 external calls.
C2_Witness ==
    /\ G.pc = "returned" /\ G.batch_size = 2
    /\ G.texts = <<"a", "b", "a">>
    /\ \A k \in 1..3 : ~IsHit(G, k)
    /\ G.calls = << [input |-> <<"a", "b">>, ok |-> TRUE],
                    [input |-> <<"a">>, ok |-> TRUE] >>

C5_FailureEnds ==
    \A c \in 1..Len(G.calls) :
        ~G.calls[c].ok =>
            /\ c = Len(G.calls)
            /\ G.pc = "raised" /\ G.error = "RuntimeError"

C5_EarlierKept ==
    (G.pc = "raised" /\ G.error = "RuntimeError" /\ mongo = "up" /\ ~cache_disabled) =>
        \A c \in 1..(Len(G.calls) - 1) :
            \A j \in 1..Len(G.calls[c].input) :
                LET text == G.calls[c].input[j]
                IN  CacheDoc(text, Sha256(text \o ":" \o EmbModel), EmbModel,
                             Vec("api", text), now) \in store

C5_NoRollback ==
    (G.pc # "raised" /\ gen'[Caller].pc = "raised") => store' = store

\* C5: a failed external call ends generate. The failed call is the last one
\* the call makes and leaves it raised with RuntimeError; the failing step
\* does not touch the cache, and (store healthy, cache enabled) the entries of
\* every batch that succeeded before it are in the cache when the error
\* propagates.
C5_AbortKeepsCache ==
    [](C5_FailureEnds /\ C5_EarlierKept) /\ [][C5_NoRollback]_vars

\* C5 witness: the second of two batches failed; the first batch's vector is
\* cached.
C5_Witness ==
    /\ G.pc = "raised" /\ G.error = "RuntimeError"
    /\ mongo = "up" /\ ~cache_disabled
    /\ Len(G.calls) = 2 /\ G.calls[1].ok /\ ~G.calls[2].ok
    /\ G.calls[1].input = <<"a">>
    /\ OldDoc("a", PickleDumps(Vec("api", "a"))) \in store

\* a damaged entry of one of the texts is in the collection
DamagedAmong(coll, texts, model) ==
    \E i \in 1..Len(texts) : \E d \in EntriesOf(coll, texts[i], model) :
        d.value = CorruptBytes

C15_GetManyRaises ==
    \A texts \in {<<"a">>, <<"b">>, <<"a", "b">>, <<"b", "a">>} :
        DamagedAmong(store, texts, EmbModel) =>
            GetManyResult(store, FALSE, texts, EmbModel, FALSE)
              = [raised |-> TRUE, value |-> <<>>]

C15_LookupStep ==
    ( /\ G.pc = "lookup" /\ gen'[Caller].pc # "lookup"
      /\ mongo = "up" /\ ~cache_disabled
      /\ DamagedAmong(store, G.texts, EmbModel) )
    => /\ gen'[Caller].pc = "raised"
       /\ gen'[Caller].error = "UnpicklingError"
       /\ gen'[Caller].calls = <<>>

C15_NoCallAfter ==
    G.error = "UnpicklingError" => (G.pc = "raised" /\ G.calls = <<>>)

\* C15: a damaged entry is an error, not a miss. A get_many that reads the
\* store (cache enabled, store answering) and finds, for one of its keys, an
\* entry whose bytes cannot be unpickled raises instead of returning a list;
\* a generate whose lookup reads such an entry ends raised with that error
\* and has made no external call.
C15_CorruptSurfaces ==
    [](C15_GetManyRaises /\ C15_NoCallAfter) /\ [][C15_LookupStep]_vars

\* C15 witness: generate on two texts, the second with a damaged entry, raised
\* the unpickling error without any external call.
C15_Witness ==
    /\ G.pc = "raised" /\ G.error = "UnpicklingError"
    /\ mongo = "up" /\ ~cache_disabled
    /\ G.texts = <<"a", "b">> /\ G.calls = <<>>
    /\ OldDoc("b", CorruptBytes) \in store

----------------------------------------------------------------------------
(* Properties of the client from construction on (checked under SpecBuild) *)

C13_BuildSucceeds == ~(G.pc = "init_raised" /\ G.error = "PyMongoError")

C13_SameVectors ==
    (G.pc = "returned" /\ G.texts_to_embed = G.texts) =>
        /\ G.embeddings = ApiEmbed(G.texts)
        /\ SentTexts(G.calls) = G.texts

C13_LookupDegrades ==
    ( /\ mongo = "down" /\ ~cache_disabled
      /\ G.pc = "lookup" /\ gen'[Caller].pc # "lookup" )
    => /\ gen'[Caller].pc = "batch"
       /\ gen'[Caller].texts_to_embed = G.texts
       /\ gen'[Caller].embeddings = [k \in 1..Len(G.texts) |-> None]

C13_WriteDegrades ==
    ( /\ mongo = "down" /\ ~cache_disabled
      /\ G.pc = "cache_write" /\ gen'[Caller].pc # "cache_write" )
    => /\ gen'[Caller].pc \in {"batch", "return"}
       /\ gen'[Caller].embeddings = G.embeddings

\* C13: cache errors never fail the pipeline. Building the generator never
\* ends with the store's error, whatever the state of the store; a lookup made
\* while the store is down makes every text a miss; a cache write made while
\* the store is down lets the call go on with its vectors; and a call in which
\* every text was a miss returns the external model's vectors for all texts,
\* as it does with the cache disabled.
C13_CacheErrorsNeverFail ==
    [](C13_BuildSucceeds /\ C13_SameVectors)
      /\ [][C13_LookupDegrades /\ C13_WriteDegrades]_vars

\* the part of C13 that the code keeps: after a successful construction, store
\* errors on lookup and on write degrade to always-miss
C13_AfterBuild ==
    []C13_SameVectors /\ [][C13_LookupDegrades /\ C13_WriteDegrades]_vars

\* C13 failing state: the cache is enabled, the store is down, and the
\* constructor has raised the store's error: there is no generator to call.
C13_Witness ==
    /\ ~cache_disabled /\ mongo = "down"
    /\ G.pc = "init_raised" /\ G.error = "PyMongoError"

----------------------------------------------------------------------------
(* Properties of chunk_text (checked under SpecChunk) *)

K == chunker

TokenCount(s) == Len(Encode(s))

\* the characters of s that are neither whitespace nor a sentence splitter
Content(s) ==
    SelectSeq(s, LAMBDA ch : ch \notin Spaces /\ \A i \in 1..Len(SentenceSplitters) :
                                                     ch # SentenceSplitters[i])

C18_NonEmpty == \A j \in 1..Len(K.chunks) : K.chunks[j] # <<>>

\* C18: token bound. Every chunk chunk_text has emitted is non-empty and, as
\* emitted (sentences joined by single spaces), encodes to at most max_tokens
\* tokens.
C18_TokenBound ==
    \A j \in 1..Len(K.chunks) :
        /\ K.chunks[j] # <<>>
        /\ TokenCount(K.chunks[j]) <= K.max_tokens

\* C18 failing state: max_tokens = 2 and the two one-token sentences "a" and
\* "1": their counts add up to 2, and the chunk "a 1" that is returned has
\* 3 tokens.
C18_Witness ==
    /\ K.pc = "returned" /\ K.max_tokens = 2
    /\ K.text = <<"a", ".", "1">>
    /\ K.sentences = << <<"a">>, <<"1">> >>
    /\ K.chunks = << <<"a", " ", "1">> >>
    /\ TokenCount(K.chunks[1]) = 3

\* C19: sentence order. When chunk_text returns, the content of the chunks
\* read in output order is the content of the sentences of the text in their
\* original order; a text without sentences gives no chunk.
C19_SentenceOrder ==
    K.pc = "returned" =>
        /\ Content(Decode(K.chunks)) = Content(Decode(K.sentences))
        /\ Content(Decode(K.sentences)) = Content(K.text)
        /\ K.sentences = <<>> => K.chunks = <<>>

\* the part of C19 that the code keeps: a text without sentences gives no
\* chunk, and the sentences are those of the text in order
C19_EmptyAndSplit ==
    K.pc = "returned" =>
        /\ Content(Decode(K.sentences)) = Content(K.text)
        /\ K.sentences = <<>> => K.chunks = <<>>

\* C19 failing state: max_tokens = 1 and the text "1.a a": the two-token
\* sentence "a a" is emitted, in two pieces, before the sentence "1" that
\* precedes it in the text.
C19_Witness ==
    /\ K.pc = "returned" /\ K.max_tokens = 1
    /\ K.text = <<"1", ".", "a", " ", "a">>
    /\ K.sentences = << <<"1">>, <<"a", " ", "a">> >>
    /\ K.chunks = << <<"a">>, <<" ", "a">>, <<"1">> >>

C20_LongStep ==
    ( /\ K.pc = "loop" /\ chunker'.pc = "loop"
      /\ chunker'.k = K.k + 1
      /\ TokenCount(K.sentences[K.k + 1]) > K.max_tokens )
    => LET sentence == K.sentences[K.k + 1]
           tokens == Encode(sentence)
           t == Len(tokens)
           n == K.max_tokens
           c == CeilDiv(t, n)
           new == SubSeq(chunker'.chunks, Len(K.chunks) + 1, Len(chunker'.chunks))
       IN  /\ Len(chunker'.chunks) = Len(K.chunks) + c
           /\ \A j \in 1..c :
                /\ new[j] # <<>>
                /\ new[j] = Decode(SubSeq(tokens, (j - 1) * n + 1,
                                          IF j < c THEN j * n ELSE t))
           /\ t - (c - 1) * n \in 1..n
           /\ Decode(new) = sentence
           /\ chunker'.current_chunk = K.current_chunk
           /\ chunker'.current_tokens = K.current_tokens

C20_AppendOnly == K.pc = "loop" => IsPrefix(K.chunks, chunker'.chunks)

\* C20: a sentence of t > max_tokens tokens. The pass of the loop that handles
\* it appends exactly ceil(t / max_tokens) chunks and leaves the accumulated
\* sentences alone: chunk j is the decoding of tokens (j-1)*max_tokens+1 ..
\* j*max_tokens of the sentence's token stream, the last one of the 1 ..
\* max_tokens tokens that remain; none is empty, together they decode to the
\* sentence, and chunks once emitted keep their place up to the return.
C20_LongSentence == [][C20_LongStep /\ C20_AppendOnly]_vars

\* C20 witness: max_tokens = 2 and the three-token sentence "a a a", returned
\* as ceil(3 / 2) = 2 chunks of 2 tokens and 1 token.
C20_Witness ==
    /\ K.pc = "returned" /\ K.max_tokens = 2
    /\ K.text = <<"a", " ", "a", " ", "a">>
    /\ K.chunks = << <<"a", " ", "a">>, <<" ", "a">> >>
    /\ Encode(K.text) = << <<"a">>, <<" ", "a">>, <<" ", "a">> >>

C27_BypassStep ==
    ( /\ K.pc = "loop" /\ chunker'.pc = "loop"
      /\ chunker'.k = K.k + 1
      /\ TokenCount(K.sentences[K.k + 1]) > K.max_tokens )
    => /\ chunker'.current_chunk = K.current_chunk
       /\ chunker'.current_tokens = K.current_tokens
       /\ IsPrefix(K.chunks, chunker'.chunks)
       /\ Len(chunker'.chunks) > Len(K.chunks)
       /\ Decode(SubSeq(chunker'.chunks, Len(K.chunks) + 1, Len(chunker'.chunks)))
             = K.sentences[K.k + 1]
       /\ chunker'.sentences = K.sentences
       /\ chunker'.max_tokens = K.max_tokens

\* C27: the long-sentence pass bypasses the accumulator. The pass of the loop
\* that handles a sentence of more than max_tokens tokens appends to the
\* output only chunks that together are that sentence, and leaves the pending
\* sentences (current_chunk) and the tracked token count (current_tokens)
\* exactly as they were.
C27_Bypass == [][C27_BypassStep]_vars

\* C27 witness: max_tokens = 1, text "1.a a": after the pass for "a a" its two
\* windows are in the output while the sentence "1" is still pending with its
\* count of 1.
C27_Witness ==
    /\ K.pc = "loop" /\ K.max_tokens = 1 /\ K.k = 2
    /\ K.text = <<"1", ".", "a", " ", "a">>
    /\ K.current_chunk = << <<"1">> >> /\ K.current_tokens = 1
    /\ K.chunks = << <<"a">>, <<" ", "a">> >>

----------------------------------------------------------------------------
(* Further properties of index_batch_with_chunks (checked under Spec) *)

ChunkLess == {t \in Tasks : documents[t].chunks = <<>>}

\* C29: a document submitted with an empty chunk list is never indexed. Each of
\* its attempts ends in generate's ValueError before any cache lookup, external
\* embedding call or index write; it is never successful; and when the batch
\* has returned it has used all MaxAttempts attempts and its url is in failed.
C29_EmptyChunkList ==
    \A t \in ChunkLess :
        /\ gen[t].pc \in {"idle", "raised"}
        /\ gen[t].pc = "raised" => gen[t].error = "ValueError"
        /\ gen[t].calls = <<>>
        /\ gen[t].cache_results = <<>>
        /\ task[t].state # "ok"
        /\ lastWrite[documents[t].url] = NoBody
        /\ \A r \in index : r.id # documents[t].url
        /\ task[t].state = "err" => task[t].attempt = MaxAttempts
        /\ mainpc = "returned" =>
              /\ task[t].state = "err"
              /\ Count(results.failed, documents[t].url) = 1

\* C29 witness: the batch of the one document without chunks has returned
\* after three attempts, with its url as the only failure and an index that
\* holds nothing under it.
C29_Witness ==
    /\ mainpc = "returned"
    /\ documents = <<DocE>>
    /\ task[1] = [state |-> "err", attempt |-> MaxAttempts]
    /\ gen[1].pc = "raised" /\ gen[1].error = "ValueError" /\ gen[1].calls = <<>>
    /\ results = [success |-> 0, failed |-> <<"u3">>]
    /\ \A r \in index : r.id # "u3"

\* a step that changes the aggregate result is one pass of the calling
\* thread's as_completed loop, for one finished future, while no worker moves
C26_UpdateStep ==
    results' # results =>
        /\ mainpc = "collect" /\ mainpc' = "collect"
        /\ task' = task /\ gen' = gen
        /\ \E t \in Tasks \ collected :
              /\ Final(t)
              /\ collected' = collected \cup {t}
              /\ task[t].state = "ok" =>
                    results' = [results EXCEPT !.success = @ + 1]
              /\ task[t].state = "err" =>
                    results' = [results EXCEPT !.failed = Append(@, documents[t].url)]

C26_NothingLost ==
    /\ results.success = Cardinality(collected \cap Succeeded)
    /\ Len(results.failed) = Cardinality(collected \cap Failing)
    /\ \A u \in Urls :
          Count(results.failed, u)
              = Cardinality({t \in collected \cap Failing : documents[t].url = u})
    /\ \A t \in collected : Final(t)

\* C26: updates of the aggregate result of a batch exclude one another and
\* none is lost. The result object is changed only by the thread that called
\* index_batch_with_chunks, one finished future at a time, in a step in which
\* no worker thread moves and which makes exactly one increment or one append;
\* and in every reachable state, whatever the order in which the workers
\* finished, success counts exactly the collected successes and failed holds
\* exactly the urls of the collected failures.
C26_ExclusiveUpdates == []C26_NothingLost /\ [][C26_UpdateStep]_vars

\* C26 witness: both workers of a batch of two have finished, the second
\* document's future was taken first and is counted, the first one's is still
\* to be taken.
C26_Witness ==
    /\ mainpc = "collect"
    /\ documents = <<DocA, DocB>>
    /\ collected = {2}
    /\ task[1].state = "err" /\ task[2].state = "ok"
    /\ results = [success |-> 1, failed |-> <<>>]

\* the step of worker t that follows its cache write goes on with generate
C30_WriteStep ==
    \A t \in Tasks :
        (gen[t].pc = "cache_write" /\ gen'[t] # gen[t]) =>
            /\ gen'[t].pc \in {"batch", "return"}
            /\ gen'[t].embeddings = gen[t].embeddings
            /\ gen'[t].error = ""
            /\ task' = task
            /\ \A u \in Tasks \ {t} : gen'[u] = gen[u]

C30_State ==
    /\ \A x \in Texts : Cardinality(EntriesOf(store, x, EmbModel)) <= 1
    /\ \A t \in Tasks :
          gen[t].pc = "raised" =>
             \/ gen[t].error = "ValueError" /\ documents[t].chunks = <<>>
             \/ /\ gen[t].error = "RuntimeError"
                /\ gen[t].calls # <<>>
                /\ ~gen[t].calls[Len(gen[t].calls)].ok
    /\ \A t \in Succeeded :
          /\ \E r \in index : r.id = documents[t].url
          /\ \A k \in 1..Len(documents[t].chunks) :
                gen[t].embeddings[k] \in {Vec("api", documents[t].chunks[k].content),
                                          Vec("old", documents[t].chunks[k].content)}
          /\ (mongo = "up" /\ ~cache_disabled) =>
                \A k \in 1..Len(documents[t].chunks) :
                   Cardinality(EntriesOf(store, documents[t].chunks[k].content,
                                         EmbModel)) = 1

\* C30: documents of one batch that share a chunk text and are embedded
\* concurrently. Under every interleaving of the workers' lookups, external
\* calls and cache writes: the cache never holds two entries for one text and
\* model, and holds exactly one for every text of an indexed document when the
\* store is healthy and enabled; every indexed document has a vector of its
\* own text for every chunk; generate ends with an error only for an empty
\* list or a failed external call; and the step after a worker's cache write
\* continues that worker and leaves every other worker as it was.
C30_SharedText == []C30_State /\ [][C30_WriteStep]_vars

\* C30 witness: on a cold cache DocA and DocB both missed "a", both sent it to
\* the external model in their first attempt and both wrote it; both are
\* indexed and the cache holds one entry for "a".
C30_Witness ==
    /\ mainpc = "returned"
    /\ documents = <<DocA, DocB>>
    /\ mongo = "up" /\ ~cache_disabled
    /\ task[1] = [state |-> "ok", attempt |-> 1]
    /\ task[2] = [state |-> "ok", attempt |-> 1]
    /\ gen[1].calls = <<[input |-> <<"a">>, ok |-> TRUE]>>
    /\ gen[2].calls = <<[input |-> <<"a", "b">>, ok |-> TRUE]>>
    /\ Cardinality(EntriesOf(store, "a", EmbModel)) = 1
    /\ \E r \in index : r.id = "u1"
    /\ \E r \in index : r.id = "u2"
    /\ results = [success |-> 2, failed |-> <<>>]

Healthy == mongo = "up" /\ ~cache_disabled

\* the calls of frame g whose cache write is over
WrittenCalls(g) ==
    {k \in 1..Len(g.calls) :
        /\ g.calls[k].ok
        /\ ~(g.pc = "cache_write" /\ k = Len(g.calls))}

C28_Cached ==
    Healthy =>
       \A t \in DOMAIN gen : \A k \in WrittenCalls(gen[t]) :
          \A j \in 1..Len(gen[t].calls[k].input) :
             \E d \in EntriesOf(store, gen[t].calls[k].input[j], EmbModel) :
                CanUnpickle(d.value)

C28_Step ==
    /\ \A x \in Texts :
          EntriesOf(store, x, EmbModel) # {} => EntriesOf(store', x, EmbModel) # {}
    /\ Healthy =>
         \A t \in DOMAIN gen :
            /\ (gen[t].pc = "lookup" /\ gen'[t].pc # "lookup") =>
                  \A k \in 1..Len(gen'[t].texts) :
                     (EntriesOf(store, gen'[t].texts[k], EmbModel) # {}
                        /\ gen'[t].pc # "raised")
                     => /\ gen'[t].embeddings[k] # None
                        /\ \A j \in 1..Len(gen'[t].texts_to_embed) :
                              gen'[t].texts_to_embed[j] # gen'[t].texts[k]
            /\ (gen[t].pc = "batch" /\ Len(gen'[t].calls) > Len(gen[t].calls)) =>
                  \A j \in 1..Len(gen'[t].calls[Len(gen'[t].calls)].input) :
                     \E k \in 1..Len(gen[t].texts_to_embed) :
                        gen[t].texts_to_embed[k]
                           = gen'[t].calls[Len(gen'[t].calls)].input[j]
    /\ Healthy =>
         \A t \in Tasks :
            (task[t].state = "backoff" /\ task'[t].state = "running") =>
               /\ gen'[t].texts = ChunkTexts(documents[t].chunks)
               /\ \A k \in 1..Len(gen[t].calls) :
                     gen[t].calls[k].ok =>
                        \A j \in 1..Len(gen[t].calls[k].input) :
                           EntriesOf(store, gen[t].calls[k].input[j], EmbModel) # {}

AllFirstTry == \A t \in Tasks : task[t] = [state |-> "ok", attempt |-> 1]

\* the cache was empty when the batch started: with the store up no entry is
\* ever overwritten, so it was cold exactly if it holds no entry of an earlier
\* run now
ColdRun ==
    /\ mongo = "up"
    /\ \A d \in store : d.value # PickleDumps(Vec("old", d.text))

\* the texts that the external calls of frame g carried
CallTexts(g) ==
    {x \in Texts : \E k \in 1..Len(g.calls) :
                      \E j \in 1..Len(g.calls[k].input) : g.calls[k].input[j] = x}

\* C24 as stated: in a run on a cold cache in which every external call
\* succeeded, each document caused exactly one external embedding call.
C24_OneCallEach ==
    (mainpc = "returned" /\ AllFirstTry /\ ColdRun) =>
        \A t \in Tasks : Len(gen[t].calls) = 1

C24_Final ==
    (mainpc = "returned" /\ AllFirstTry) =>
        /\ results = [success |-> Len(documents), failed |-> <<>>]
        /\ \A t \in Tasks :
              /\ Len(gen[t].calls) <= 1
              /\ \A k \in 1..Len(gen[t].calls) : gen[t].calls[k].ok
              /\ gen[t].calls = <<>>
                    <=> \A k \in 1..Len(gen[t].texts) : IsHit(gen[t], k)
              /\ Cardinality({r \in index : r.id = documents[t].url}) = 1
        /\ ColdRun =>
              \A t \in Tasks :
                 gen[t].calls = <<>> =>
                    \A k \in 1..Len(gen[t].texts) :
                       \E u \in Tasks \ {t} : gen[t].texts[k] \in CallTexts(gen[u])

\* the index is written only by the step that makes a document's task
\* successful, and a successful task stays successful
C24_WriteStep ==
    /\ (index' # index \/ lastWrite' # lastWrite) =>
          \E t \in Tasks :
             /\ task[t].state = "running" /\ task'[t].state = "ok"
             /\ \A u \in Tasks \ {t} : task'[u] = task[u]
    /\ \A t \in Tasks : task[t].state = "ok" => task'[t] = task[t]

\* C24 (amended): in a run in which every external call succeeded, each
\* document with 1 to batch_size chunks caused at most one external embedding
\* call, none exactly when all its chunk texts were cache hits, which on a
\* cold cache means that each of them was sent by another document of the
\* same run; each document caused exactly one index upsert; and the final
\* statistics have successful equal to the number of documents and an empty
\* failed list.
C24_EndToEnd == []C24_Final /\ [][C24_WriteStep]_vars

\* C24 witness: cold cache, every call succeeded, both documents indexed, and
\* DocA, whose only text DocB had sent and cached before, made no external
\* call at all.
C24_Witness ==
    /\ mainpc = "returned"
    /\ documents = <<DocA, DocB>>
    /\ AllFirstTry /\ ColdRun /\ ~cache_disabled
    /\ gen[1].calls = <<>>
    /\ gen[2].calls = <<[input |-> <<"a", "b">>, ok |-> TRUE]>>
    /\ results = [success |-> 2, failed |-> <<>>]
    /\ Cardinality(index) = 2

----------------------------------------------------------------------------
(* Properties of generate_single (checked under SpecSingle) *)

\* str.strip() of the text is empty
IsBlank(text) == text \in {"", " "}

\* C23, the part about blank input: whenever generate_single was given an
\* empty or whitespace-only text it failed with the empty-input error
\* (ValueError) without any cache lookup or external call, so no frame of
\* generate ever works on a blank text.
C23_BlankRejected ==
    \A k \in 1..Len(G.texts) :
        IsBlank(G.texts[k]) =>
            /\ G.pc = "raised" /\ G.error = "ValueError"
            /\ G.cache_results = <<>> /\ G.calls = <<>>

\* the part of C23 that holds: a non-empty text is handed to generate as the
\* one-element list, and what comes back is the vector at position 0
C23_ReturnsFirst ==
    /\ Len(G.texts) <= 1
    /\ (G.pc = "raised" /\ G.texts = <<>>) => G.error = "ValueError"
    /\ G.pc = "returned" =>
          /\ Len(G.embeddings) = 1
          /\ G.embeddings[1] \in {Vec("api", G.texts[1]), Vec("old", G.texts[1])}

\* C23 witness: generate_single(" ") went through the lookup, sent the blank
\* to the external model and returned its vector.
C23_Witness ==
    /\ G.pc = "returned"
    /\ G.texts = <<" ">>
    /\ G.calls = <<[input |-> <<" ">>, ok |-> TRUE]>>
    /\ G.embeddings = <<Vec("api", " ")>>

----------------------------------------------------------------------------
(* Properties of _run_indexing (checked under SpecDriver) *)

D == driver

Terminated == D.pc \in {"done", "raised"}

RECURSIVE SumSuccess(_)
SumSuccess(calls) ==
    IF calls = <<>> THEN 0 ELSE Head(calls).results.success + SumSuccess(Tail(calls))

RECURSIVE ConcatFailed(_)
ConcatFailed(calls) ==
    IF calls = <<>> THEN <<>> ELSE Head(calls).results.failed \o ConcatFailed(Tail(calls))

RECURSIVE ConcatBatches(_)
ConcatBatches(calls) ==
    IF calls = <<>> THEN <<>> ELSE Head(calls).batch \o ConcatBatches(Tail(calls))

\* the stats file was written exactly once, with the final times and with
\* what the completed slices reported
PersistedOnce ==
    /\ Len(D.saved) = 1
    /\ D.saved[1] = D.stats
    /\ D.saved[1].end_time # NoTime
    /\ D.saved[1].duration_seconds # NoTime
    /\ D.saved[1].total_documents = Len(D.docs_metadata)
    /\ D.saved[1].successful = SumSuccess(D.calls)
    /\ D.saved[1].failed = ConcatFailed(D.calls)

\* C21 as stated: every run of the driver that has terminated, by returning
\* or by an error, has persisted the statistics exactly once, with end_time
\* and duration set and with the counts of every completed slice; a run that
\* ended with an error raised it after the statistics were written.
C21_StatsPersisted ==
    Terminated =>
        /\ PersistedOnce
        /\ D.pc = "raised" <=> D.error # ""

\* the part of C21 that holds: a run that got as far as the try block
\* (stats initialised) persists exactly once and re-raises; nothing is
\* written before the finally block
C21_InsideTry ==
    /\ (Terminated /\ D.stats.start_time # NoTime) =>
          /\ PersistedOnce
          /\ D.pc = "raised" <=> D.error # ""
    /\ ~Terminated => D.saved = <<>>

\* C21 witness: the metadata file was not found; the run ended with
\* FileNotFoundError and no statistics were written.
C21_Witness ==
    /\ D.pc = "raised"
    /\ D.error = "FileNotFoundError"
    /\ D.saved = <<>>
    /\ D.stats = NoStats

\* C22 as stated: after a run that ended without an exception every document
\* of the input set is counted as successful or listed as failed:
\* successful + len(failed) = total_documents.
C22_NothingSilent ==
    D.pc = "done" =>
        D.stats.successful + Len(D.stats.failed) = D.stats.total_documents

\* the part of C22 that holds: every prepared document is accounted for
C22_PreparedAccounted ==
    D.pc = "done" =>
        /\ D.stats.successful + Len(D.stats.failed) = Len(D.documents)
        /\ \A k \in 1..Len(D.documents) :
              \/ \E r \in index : r.id = D.documents[k].url
              \/ Count(D.stats.failed, D.documents[k].url) = 1

\* C22 witness: of two documents one could not be read; the run returned
\* with total_documents 2, one success and an empty failed list.
C22_Witness ==
    /\ D.pc = "done"
    /\ D.docs_metadata = <<Meta(DocA, FALSE), Meta(DocB, TRUE)>>
    /\ D.stats.total_documents = 2
    /\ D.stats.successful = 1
    /\ D.stats.failed = <<>>
    /\ Len(D.saved) = 1

C25_State ==
    /\ \A k \in 1..Len(D.calls) :
          /\ D.calls[k].batch = Slice(D.documents, (k - 1) * D.batch_size, D.batch_size)
          /\ Len(D.calls[k].batch) \in 1..D.batch_size
          /\ D.calls[k].results.success + Len(D.calls[k].results.failed)
                = Len(D.calls[k].batch)
    /\ D.i = Len(D.calls) * D.batch_size
    /\ ConcatBatches(D.calls) = SubSeq(D.documents, 1, Min(D.i, Len(D.documents)))
    /\ D.pc = "batch" =>
          /\ documents = Slice(D.documents, D.i, D.batch_size)
          /\ documents # <<>>
    /\ D.pc # "batch" => \A t \in Tasks : Final(t) /\ t \in collected
    /\ D.stats.successful = SumSuccess(D.calls)
    /\ D.stats.failed = ConcatFailed(D.calls)
    /\ D.pc = "done" => ConcatBatches(D.calls) = D.documents

C25_Step ==
    /\ (D.pc # "batch" /\ driver'.pc = "batch") =>
          /\ mainpc \in {"none", "returned"}
          /\ \A t \in Tasks : Final(t) /\ t \in collected
          /\ documents' = Slice(D.documents, D.i, D.batch_size)
          /\ \A t \in DOMAIN task' : task'[t].state = "unsubmitted"
    /\ (task' # task \/ gen' # gen \/ documents' # documents) => driver'.pc = "batch"
    /\ Len(driver'.calls) > Len(D.calls) =>
          /\ mainpc = "returned"
          /\ driver'.calls = Append(D.calls, [batch |-> documents, results |-> results])

\* C25: the driver hands every prepared document to the indexer exactly once,
\* in consecutive slices of at most batch_size documents, one slice after the
\* other. The k-th call gets documents[(k-1)*batch_size : k*batch_size]; a
\* slice is entered only when the call for the slice before has returned with
\* all its tasks finished and collected, and workers move only inside a call;
\* successful is the sum of the slices' success counts and failed is the
\* concatenation of the slices' failed lists in slice order; after a run that
\* returned, the slices together are the prepared list.
C25_SequentialSlices == []C25_State /\ [][C25_Step]_vars

\* C25 witness: two documents, batch_size 1: two slices were run one after
\* the other, the first one's document failed and the second one's was
\* indexed, and the run returned with these totals.
C25_Witness ==
    /\ D.pc = "done"
    /\ D.batch_size = 1
    /\ D.documents = <<DocA, DocB>>
    /\ Len(D.calls) = 2
    /\ D.calls[1] = [batch |-> <<DocA>>, results |-> [success |-> 0, failed |-> <<"u1">>]]
    /\ D.calls[2] = [batch |-> <<DocB>>, results |-> [success |-> 1, failed |-> <<>>]]
    /\ D.stats.successful = 1 /\ D.stats.failed = <<"u1">>

====
